---- MODULE Spec2Model ----
(***************************************************************************)
(* State-machine model of the compute engine of relativity_simulation_2d:  *)
(* the gpu.FallbackManager (internal/gpu/fallback.go), its reader/writer   *)
(* locking discipline, and the device solve path of main.go                *)
(* (solvePotentialGPU, SolvePoissonGPU, ExecuteFFT).                       *)
(*                                                                         *)
(* Three specifications share the module:                                  *)
(*   Spec      one caller driving the FallbackManager API                  *)
(*   SpecLock  several goroutines calling the FallbackManager concurrently *)
(*   SpecSim   one main.Simulation stepped on the CPU and the GPU path     *)
(***************************************************************************)
EXTENDS Integers, Sequences, FiniteSets, TLC

(***************************************************************************)
(* Bounds of the model.                                                    *)
(***************************************************************************)
\* longest performance history recorded per processor type
MaxSamples == 2
\* largest latency (ms) passed to RecordPerformance
MaxTime == 2
\* goroutines calling one manager concurrently
NumGoroutines == 2
\* longest performance history recorded per processor type by those goroutines
LockSamples == 1
\* largest grid side (cfg.SimulationWidth, cfg.SimulationDepth) stepped
MaxGrid == 4
\* most device operations that fail during one simulation step
MaxFaults == 2
\* largest width and height passed to the physics functions
MaxCells == 2
\* largest particle mass deposited
MaxMass == 1
\* most particles in the slice passed to DepositMassToGrid
MaxDeposits == 2
\* largest speed of a particle, in half cells per unit of time
MaxSpeed == 2
\* largest acceleration of the force field, in cells per unit of time squared
MaxAccel == 1
\* largest time step, in units of two (dt = 2, 4, ...)
MaxDtPairs == 1
\* largest grid side and particle count of a configuration handed to
\* NewSimulation (the smallest is -1)
MaxCfg == 3
\* simulations living in one process
NumSims == 2
\* frame times recorded on one RenderLoop
MaxRecordings == 61
\* frames a RenderLoop executes (ExecuteFrame calls, in Run or alone) before
\* the model stops following it
MaxFrames == 2
\* largest width and height of the plan one ExecuteFFT call runs
MaxFFTSide == 4
MaxPotential == 1
\* steps one simulation takes
MaxParSteps == 2
\* device contexts created in one run
MaxCtx == 2

(***************************************************************************)
(* Program constants, fallback.go:12-19 and 38-43 (iota enumerations).     *)
(***************************************************************************)
ModeAuto == 0
ModeCPU == 1
ModeGPU == 2
ProcessorTypeCPU == 0
ProcessorTypeGPU == 1
\* config.DefaultConfig: SimulationWidth and SimulationDepth
DefaultGridSide == 256
\* config.DefaultConfig: ScreenWidth, ScreenHeight
DefaultScreenWidth == 1920
DefaultScreenHeight == 1080

ComputeModes == {ModeAuto, ModeCPU, ModeGPU}
ProcessorTypes == {ProcessorTypeCPU, ProcessorTypeGPU}

\* the error values the manager stores or returns (Go error; "nil" is no error)
ErrNil == "nil"
ErrSimulated == "simulated GPU error"
ErrNotAvailable == "GPU not available"

VARIABLES
  \* ---- gpu.FallbackManager fields (fallback.go:76-83) ----
  mode,             \* ComputeMode
  gpuAvailable,     \* bool
  lastError,        \* error
  hasError,         \* bool
  performanceData,  \* map[ProcessorType][]float64, as ProcessorType -> Seq
  \* ---- the last completed API call: its name, the mode it found, its result
  lastCall,
  \* history: TRUE from the SimulateGPUError that flipped ModeGPU to ModeCPU
  \* until the next SetMode
  flipped,
  \* history: TRUE once SetMode has been called on this manager
  modeSet,
  \* history: per processor type, how many recordings were made and their sum
  recorded,
  \* ---- concurrent callers (SpecLock) ----
  mu,               \* sync.RWMutex: the writer holding it, the readers holding it
  pc,               \* per goroutine: the call it is in and how far it got
  \* ---- main.Simulation (main.go:25-38) and the package-level cfg (SpecSim) ----
  cfgDims,              \* <<cfg.SimulationWidth, cfg.SimulationDepth>>
  simGpu,               \* s.gpu: NoGPU (nil) or the *gpu.GPU context
  forceGPUInitFailure,  \* test hook
  forceGPUCompFailure,  \* test hook
  gpuErrorOccurred,
  fallbackToCPU,
  potentialBy,          \* which solver wrote s.PotentialGrid last
  lastStep,             \* the last completed call on the simulation
  \* history: the plan keys for which CreateGPUFFTPlan2D ran on the current
  \* context of the simulation, and whether it ran twice for one of them
  planHist,
  \* ---- package physics (SpecDeposit, SpecMotion) ----
  gridDims,             \* <<width, height>> passed to the physics functions
  massGrid,             \* the grid DepositMassToGrid is filling
  depositLog,           \* history of the DepositMassToGrid call in progress
  particle,             \* one *Particle of the slice being integrated
  lastMove,             \* the last UpdateVelocities / UpdatePositions on it
  \* ---- construction of simulations (SpecNew) ----
  newCall,              \* the last NewSimulation call: its config and what came of it
  \* ---- several simulations in one process (SpecPar, SpecOwn) ----
  sharedCfg,            \* the configuration they share: grid sides, window at start
  insts,                \* per simulation: gpu reference, place in a step, outcome
  contexts,             \* the *gpu.GPU contexts created so far, in creation order
  window,               \* the process-wide raylib window: is it ready
  accesses,             \* which simulation read or wrote which location
  \* ---- renderer.RenderLoop (render_loop.go:8-33) (SpecLoop) ----
  loop,                 \* its fields: running, shouldClose, frameTimes, frameCount, ...
  runPc,                \* where a call of Run stands
  loopHist,             \* history: recordings made, close requests, frames run
  \* ---- one ExecuteFFT call and the device it drives (SpecFFT) ----
  fftPlan,              \* the plan executed: Width, Height, IsForward
  fftPc,                \* where the host stands in ExecuteFFT
  fftCur,               \* <<currentInput, currentOutput>> of executeCooleyTukeyFFT
  fftBufs,              \* what each device buffer holds, and whether completely
  devQueue,             \* commands issued to the device and not yet taken up
  devRunning,           \* kernels the device is executing
  fftLog,               \* history: the kernels started, what they read and wrote
  \* ---- the grid functions called on one grid (SpecGrid) ----
  gridIn,               \* the grid handed to them: its sides and its cells
  gradOut,              \* what CalculateGradient made of it
  cpuOut,               \* the fftGrid SolvePoissonFFT hands to IFFT2D
  gpuOut                \* the buffer as applyGreensFunction leaves it

fmVars == <<mode, gpuAvailable, lastError, hasError, performanceData>>
hist == <<flipped, modeSet, recorded>>
lockVars == <<mu, pc>>
simVars == <<cfgDims, simGpu, forceGPUInitFailure, forceGPUCompFailure,
             gpuErrorOccurred, fallbackToCPU, potentialBy, lastStep, planHist>>
physVars == <<gridDims, massGrid, depositLog, particle, lastMove>>
instVars == <<newCall, sharedCfg, insts, contexts, window, accesses>>
loopVars == <<loop, runPc, loopHist>>
fftVars == <<fftPlan, fftPc, fftCur, fftBufs, devQueue, devRunning, fftLog>>
gridVars == <<gridIn, gradOut, cpuOut, gpuOut>>
tailVars == <<loopVars, fftVars, gridVars>>
vars == <<mode, gpuAvailable, lastError, hasError, performanceData, lastCall,
          flipped, modeSet, mu, pc, cfgDims, simGpu, forceGPUInitFailure,
          forceGPUCompFailure, gpuErrorOccurred, fallbackToCPU, potentialBy,
          lastStep, planHist, gridDims, massGrid, depositLog, particle,
          lastMove, newCall, sharedCfg, insts, contexts, window, accesses,
          loop, runPc, loopHist, fftPlan, fftPc, fftCur, fftBufs, devQueue,
          devRunning, fftLog, gridIn, gradOut, cpuOut, gpuOut>>

(***************************************************************************)
(* Pure helpers of the manager.                                            *)
(***************************************************************************)
\* the recordings made so far, counted and added up as they are made
NoRecordings == [t \in ProcessorTypes |-> [count |-> 0, total |-> 0]]

Recorded(rec, t, ms) ==
  [rec EXCEPT ![t] = [count |-> @.count + 1, total |-> @.total + ms]]

RECURSIVE SumSeq(_)
SumSeq(s) == IF s = <<>> THEN 0 ELSE Head(s) + SumSeq(Tail(s))

\* mutation: the first sample is left out of the total
calculateStats_DropFirst(data) ==
  IF Len(data) = 0
    THEN [Count |-> 0, TotalTime |-> 0, AvgNum |-> 0, AvgDen |-> 1]
    ELSE [Count |-> Len(data), TotalTime |-> SumSeq(Tail(data)),
          AvgNum |-> SumSeq(Tail(data)), AvgDen |-> Len(data)]

\* calculateStats: Count and TotalTime; AverageTime = TotalTime / Count is kept
\* as that exact fraction (num/den), 0/1 for the zero Stats{} value.
calculateStats(data) ==
  IF Len(data) = 0
    THEN [Count |-> 0, TotalTime |-> 0, AvgNum |-> 0, AvgDen |-> 1]
    ELSE [Count |-> Len(data), TotalTime |-> SumSeq(data),
          AvgNum |-> SumSeq(data), AvgDen |-> Len(data)]

\* a.AverageTime < b.AverageTime on the exact fractions (denominators > 0)
AvgLess(a, b) == a.AvgNum * b.AvgDen < b.AvgNum * a.AvgDen

\* isGPUFaster: FALSE without a sample of both types, else strict comparison
isGPUFaster(perf) ==
  LET cpuData == perf[ProcessorTypeCPU]
      gpuData == perf[ProcessorTypeGPU]
  IN  IF Len(cpuData) = 0 \/ Len(gpuData) = 0
        THEN FALSE
        ELSE AvgLess(calculateStats(gpuData), calculateStats(cpuData))

\* mutation: the Auto branch of the selection forgets the availability check
SelectProcessor_NoAvailCheck(m, avail, err, perf) ==
  IF m = ModeGPU
    THEN IF avail /\ ~err THEN ProcessorTypeGPU ELSE ProcessorTypeCPU
    ELSE IF m = ModeCPU
      THEN ProcessorTypeCPU
      ELSE IF ~err /\ isGPUFaster(perf) THEN ProcessorTypeGPU ELSE ProcessorTypeCPU

\* mutation: ModeGPU hands out the device processor whenever no error is set
SelectProcessor_GPUIgnoresAvail(m, avail, err, perf) ==
  IF m = ModeGPU
    THEN IF ~err THEN ProcessorTypeGPU ELSE ProcessorTypeCPU
    ELSE IF m = ModeCPU
      THEN ProcessorTypeCPU
      ELSE IF avail /\ ~err /\ isGPUFaster(perf)
             THEN ProcessorTypeGPU ELSE ProcessorTypeCPU

\* the switch of GetProcessor: the processor type it returns
SelectProcessor(m, avail, err, perf) ==
  IF m = ModeGPU
    THEN IF avail /\ ~err THEN ProcessorTypeGPU ELSE ProcessorTypeCPU
    ELSE IF m = ModeCPU
      THEN ProcessorTypeCPU
      ELSE IF avail /\ ~err /\ isGPUFaster(perf)
             THEN ProcessorTypeGPU ELSE ProcessorTypeCPU

\* what GetProcessor() returns in the current state
ProcessorNow == SelectProcessor(mode, gpuAvailable, hasError, performanceData)

Call(op, ret) == [op |-> op, modeBefore |-> mode, ret |-> ret]

(***************************************************************************)
(* NewFallbackManager.                                                     *)
(***************************************************************************)
NewFallbackManager ==
  /\ mode = ModeAuto
  /\ gpuAvailable = FALSE
  /\ lastError = ErrNil
  /\ hasError = FALSE
  /\ performanceData = [t \in ProcessorTypes |-> <<>>]


(***************************************************************************)
(* main.Simulation: construction (main.go:41-64).  The two force* fields   *)
(* are the struct's test hooks ("Error handling state for testing"); no    *)
(* method sets them, a test of package main fixes them on the new struct.  *)
(***************************************************************************)
\* the nil *gpu.GPU
NoGPU == [isNil |-> TRUE, Initialized |-> FALSE, Headless |-> FALSE,
          NeedsCleanup |-> FALSE, FftPlanCache |-> {}, ShaderCache |-> {}]

\* no *gpu.GPUFFTPlan
NoPlan == [Width |-> 0, Height |-> 0, IsForward |-> FALSE]

\* an ExecuteFFT call that was not made
NotRun == [ran |-> FALSE, err |-> ErrNil, pow2 |-> FALSE, ctFailed |-> FALSE,
           retry |-> "none", kernel |-> "none", plan |-> NoPlan, compiles |-> 0,
           temp |-> FALSE]

NoStep == [op |-> "NewSimulation", initAttempted |-> FALSE,
           initFailed |-> FALSE, solveCalled |-> FALSE, solveErr |-> ErrNil,
           fwd |-> NotRun, inv |-> NotRun, plansCreated |-> {},
           greensCompiled |-> FALSE, steps |-> <<>>, done |-> TRUE]

\* no plan was created yet on the current context
NoPlanHist == [created |-> {}, again |-> FALSE]

NewSimulation(dims, forceInit, forceComp) ==
  /\ cfgDims = dims
  /\ simGpu = NoGPU
  /\ forceGPUInitFailure = forceInit
  /\ forceGPUCompFailure = forceComp
  /\ gpuErrorOccurred = FALSE
  /\ fallbackToCPU = FALSE
  /\ potentialBy = "none"
  /\ lastStep = NoStep
  /\ planHist = NoPlanHist

\* package physics before any call: no grid, no particle
NoDeposits == [count |-> 0, eligible |-> 0, outOfGrid |-> FALSE,
               last |-> [i |-> 0, j |-> 0, gxNeg |-> FALSE, gzNeg |-> FALSE,
                         Mass |-> 0, writes |-> <<>>]]

NoParticle == [X2 |-> 0, Z2 |-> 0, VX2 |-> 0, VZ2 |-> 0, Mass |-> 0]

NoMove == [op |-> "none", drifted |-> FALSE]

PhysicsIdle ==
  /\ gridDims = <<0, 0>>
  /\ massGrid = <<>>
  /\ depositLog = NoDeposits
  /\ particle = NoParticle
  /\ lastMove = NoMove

\* no NewSimulation call was made
NoNewCall == [op |-> "none"]

\* NewRenderLoop: targetFPS and maxFrameSamples (render_loop.go:38-39)
DefaultTargetFPS == 60
MaxFrameSamples == 60

\* NewRenderLoop: the zero value of every other field
NewRenderLoop ==
  [targetFPS |-> DefaultTargetFPS,
   targetFrameTime |-> [num |-> 1, den |-> DefaultTargetFPS],
   maxFrameSamples |-> MaxFrameSamples,
   frameTimes |-> <<>>, lastFrameTime |-> 0, actualFPS |-> 0,
   running |-> FALSE, shouldClose |-> FALSE, frameCount |-> 0]

\* nothing recorded, no close requested, Run not called
NoLoopHist ==
  [recordings |-> 0, requested |-> FALSE, requestedInRun |-> FALSE,
   frameAfterRequest |-> FALSE, frameAfterRunRequest |-> FALSE, frames |-> 0,
   runningAtReturn |-> FALSE]

LoopIdle ==
  /\ loop = NewRenderLoop
  /\ runPc = "idle"
  /\ loopHist = NoLoopHist

\* what a device buffer holds: the producer of its data (the caller's upload,
\* a stage of the transform, or nothing yet) and whether it was written in full
Holds(producer, complete) == [producer |-> producer, complete |-> complete]

\* no ExecuteFFT call was made: the caller's data sits in the input buffer
FFTIdle ==
  /\ fftPlan = NoPlan
  /\ fftPc = [at |-> "idle", i |-> 0, err |-> ErrNil]
  /\ fftCur = <<"input", "temp">>
  /\ fftBufs = [b \in {"input", "temp", "output"} |->
                  IF b = "input" THEN Holds(<<"caller", 0>>, TRUE)
                                 ELSE Holds(<<"none", 0>>, TRUE)]
  /\ devQueue = <<>>
  /\ devRunning = {}
  /\ fftLog = <<>>

\* no gradient taken yet
NoGradient == [done |-> FALSE, panicked |-> FALSE, AccelFieldX |-> <<>>,
               AccelFieldZ |-> <<>>]

\* no frequency-space pass made yet
NoSpectrum == [done |-> FALSE, err |-> ErrNil, data |-> <<>>]

\* the grid of a simulation not called upon: one cell, empty
GridIdle ==
  /\ gridIn = [w |-> 1, h |-> 1, at |-> <<0, 0>>, val |-> 0]
  /\ gradOut = NoGradient
  /\ cpuOut = NoSpectrum
  /\ gpuOut = NoSpectrum

TailIdle == LoopIdle /\ FFTIdle /\ GridIdle

Sims == 1..NumSims

\* a simulation as NewSimulation leaves it: gpu nil (0), no step taken
NewInst == [gpu |-> 0, pc |-> "idle", headless |-> FALSE, steps |-> 0,
            gpuErrorOccurred |-> FALSE, panicked |-> FALSE, fault |-> FALSE]

InstancesIdle ==
  /\ newCall = NoNewCall
  /\ sharedCfg = [dims |-> <<DefaultGridSide, DefaultGridSide>>, window |-> FALSE]
  /\ insts = [i \in Sims |-> NewInst]
  /\ contexts = <<>>
  /\ window = [ready |-> FALSE]
  /\ accesses = {}

Goroutines == 1..NumGoroutines

Idle == [op |-> "none", arg |-> <<0, 0>>, at |-> "idle", step |-> 0]

Init ==
  /\ NewFallbackManager
  /\ lastCall = Call("NewFallbackManager", ErrNil)
  /\ flipped = FALSE
  /\ modeSet = FALSE
  /\ recorded = NoRecordings
  /\ mu = [writer |-> FALSE, readers |-> 0]
  /\ pc = [g \in Goroutines |-> Idle]
  /\ NewSimulation(<<DefaultGridSide, DefaultGridSide>>, FALSE, FALSE)
  /\ PhysicsIdle
  /\ InstancesIdle
  /\ TailIdle

(***************************************************************************)
(* The API, one action per method.                                         *)
(***************************************************************************)
GetMode ==
  /\ lastCall' = Call("GetMode", mode)
  /\ UNCHANGED <<fmVars, hist, lockVars, simVars, physVars, instVars, tailVars>>

SetMode(m) ==
  /\ mode' = m
  /\ lastCall' = Call("SetMode", ErrNil)
  /\ flipped' = FALSE
  /\ modeSet' = TRUE
  /\ UNCHANGED <<gpuAvailable, lastError, hasError, performanceData, recorded, lockVars, simVars, physVars, instVars, tailVars>>

IsGPUAvailable ==
  /\ lastCall' = Call("IsGPUAvailable", gpuAvailable)
  /\ UNCHANGED <<fmVars, hist, lockVars, simVars, physVars, instVars, tailVars>>

GetProcessor ==
  /\ lastCall' = Call("GetProcessor", ProcessorNow)
  /\ UNCHANGED <<fmVars, hist, lockVars, simVars, physVars, instVars, tailVars>>

\* mutation: the error is recorded but the mode is left alone
ModeAfterGPUError_NoFlip(m) == m

\* mutation: every mode falls back to ModeCPU
ModeAfterGPUError_AlwaysCPU(m) == ModeCPU

\* the mode SimulateGPUError leaves behind
ModeAfterGPUError(m) == IF m = ModeGPU THEN ModeCPU ELSE m

SimulateGPUError ==
  /\ hasError' = TRUE
  /\ lastError' = ErrSimulated
  /\ mode' = ModeAfterGPUError(mode)
  /\ lastCall' = Call("SimulateGPUError", ErrNil)
  /\ flipped' = (flipped \/ (mode = ModeGPU /\ mode' = ModeCPU))
  /\ UNCHANGED <<gpuAvailable, performanceData, modeSet, recorded, lockVars, simVars, physVars, instVars, tailVars>>

HasError ==
  /\ lastCall' = Call("HasError", hasError)
  /\ UNCHANGED <<fmVars, hist, lockVars, simVars, physVars, instVars, tailVars>>

GetLastError ==
  /\ lastCall' = Call("GetLastError", lastError)
  /\ UNCHANGED <<fmVars, hist, lockVars, simVars, physVars, instVars, tailVars>>

\* mutation: clearing the errors also restores the mode the error took away
ModeAfterClear_Restore(m) == IF m = ModeCPU THEN ModeGPU ELSE m

\* ClearErrors does not touch the mode
ModeAfterClear(m) == m

ClearErrors ==
  /\ hasError' = FALSE
  /\ lastError' = ErrNil
  /\ mode' = ModeAfterClear(mode)
  /\ lastCall' = Call("ClearErrors", ErrNil)
  /\ UNCHANGED <<gpuAvailable, performanceData, hist, lockVars, simVars, physVars, instVars, tailVars>>

\* mutation: the availability check is dropped, recovery reports success
RecoveryError_AlwaysNil(avail) == ErrNil

\* what AttemptRecovery returns
RecoveryError(avail) == IF ~avail THEN ErrNotAvailable ELSE ErrNil

AttemptRecovery ==
  /\ IF RecoveryError(gpuAvailable) # ErrNil
       THEN UNCHANGED <<hasError, lastError>>
       ELSE /\ hasError' = FALSE
            /\ lastError' = ErrNil
  /\ lastCall' = Call("AttemptRecovery", RecoveryError(gpuAvailable))
  /\ UNCHANGED <<mode, gpuAvailable, performanceData, hist, lockVars, simVars, physVars, instVars, tailVars>>

RecordPerformance(processorType, timeMs) ==
  /\ Len(performanceData[processorType]) < MaxSamples
  /\ performanceData' =
       [performanceData EXCEPT ![processorType] = Append(@, timeMs)]
  /\ lastCall' = Call("RecordPerformance", ErrNil)
  /\ recorded' = Recorded(recorded, processorType, timeMs)
  /\ UNCHANGED <<mode, gpuAvailable, lastError, hasError, flipped, modeSet, lockVars, simVars, physVars, instVars, tailVars>>

\* GetPerformanceStats: the pair of Stats it returns
PerformanceStats(perf) ==
  [CPUStats |-> calculateStats(perf[ProcessorTypeCPU]),
   GPUStats |-> calculateStats(perf[ProcessorTypeGPU])]

GetPerformanceStats ==
  /\ lastCall' = Call("GetPerformanceStats", PerformanceStats(performanceData))
  /\ UNCHANGED <<fmVars, hist, lockVars, simVars, physVars, instVars, tailVars>>

Next ==
  \/ GetMode
  \/ \E m \in ComputeModes : SetMode(m)
  \/ IsGPUAvailable
  \/ GetProcessor
  \/ SimulateGPUError
  \/ HasError
  \/ GetLastError
  \/ ClearErrors
  \/ AttemptRecovery
  \/ \E t \in ProcessorTypes, ms \in 1..MaxTime : RecordPerformance(t, ms)
  \/ GetPerformanceStats

Spec == Init /\ [][Next]_vars

(***************************************************************************)
(* SpecLock: goroutines calling the manager concurrently.  Every method    *)
(* takes m.mu on entry (Lock or RLock) and releases it by defer on return; *)
(* between the two its body runs one field access at a time.               *)
(* sync.RWMutex: Lock waits until no writer and no reader holds the mutex, *)
(* RLock waits until no writer holds it.  (Go also holds new readers back  *)
(* while a writer waits; that only removes interleavings.)                 *)
(***************************************************************************)
LockedOps == {"GetMode", "SetMode", "IsGPUAvailable", "GetGPUInfo",
              "GetProcessor", "SimulateGPUError", "HasError", "GetLastError",
              "ClearErrors", "AttemptRecovery", "RecordPerformance",
              "GetPerformanceStats"}

\* the methods whose body assigns a field of the manager
Writes(op) == op \in {"SetMode", "RecordPerformance", "SimulateGPUError",
                      "ClearErrors", "AttemptRecovery"}

\* mutation: SimulateGPUError takes the shared lock
LockKind_ErrorTakesRLock(op) ==
  IF op \in {"SetMode", "RecordPerformance", "ClearErrors", "AttemptRecovery"}
    THEN "Lock" ELSE "RLock"

\* the lock each method takes: m.mu.Lock() or m.mu.RLock()
LockKind(op) ==
  IF op \in {"SetMode", "SimulateGPUError", "ClearErrors", "AttemptRecovery",
             "RecordPerformance"}
    THEN "Lock" ELSE "RLock"

\* the recordings concurrent callers make: a CPU time of 0 ms (the first
\* call of TestConcurrentFallback) and a GPU time of 1 ms
LockRecordings == {<<ProcessorTypeCPU, 0>>, <<ProcessorTypeGPU, 1>>}

\* the arguments a call can carry, as a pair: SetMode(mode),
\* RecordPerformance(processorType, timeMs); the other methods take none
ArgsOf(op) ==
  IF op = "SetMode" THEN ComputeModes \X {0}
  ELSE IF op = "RecordPerformance" THEN LockRecordings
  ELSE {<<0, 0>>}

\* the RecordPerformance calls that goroutines have made and not yet
\* carried out
Pending ==
  Cardinality({g \in Goroutines :
                 /\ pc[g].op = "RecordPerformance"
                 /\ pc[g].at \in {"lock", "body"}})

\* the samples recorded so far, of both processor types
SamplesHeld ==
  Len(performanceData[ProcessorTypeCPU]) + Len(performanceData[ProcessorTypeGPU])

\* number of field accesses in the body of each method
BodySteps(op) ==
  IF op = "SimulateGPUError" THEN 3
  ELSE IF op \in {"ClearErrors", "AttemptRecovery"} THEN 2
  ELSE 1

\* a goroutine calls a method: it reaches the Lock/RLock at the top of it
Invoke(g, op, arg) ==
  /\ pc[g].at = "idle"
  /\ op = "RecordPerformance" => SamplesHeld + Pending < LockSamples
  /\ pc' = [pc EXCEPT ![g] = [op |-> op, arg |-> arg, at |-> "lock", step |-> 0]]
  /\ UNCHANGED <<fmVars, lastCall, hist, mu, simVars, physVars, instVars, tailVars>>

\* m.mu.Lock() / m.mu.RLock() returns
Acquire(g) ==
  /\ pc[g].at = "lock"
  /\ IF LockKind(pc[g].op) = "Lock"
       THEN /\ ~mu.writer
            /\ mu.readers = 0
            /\ mu' = [mu EXCEPT !.writer = TRUE]
       ELSE /\ ~mu.writer
            /\ mu' = [mu EXCEPT !.readers = @ + 1]
  /\ pc' = [pc EXCEPT ![g].at = "body", ![g].step = 1]
  /\ UNCHANGED <<fmVars, lastCall, hist, simVars, physVars, instVars, tailVars>>

\* the effect of field access number k of a method body on the manager
BodyEffect(op, arg, k) ==
  IF op = "SetMode" THEN
       /\ mode' = arg[1]
       /\ UNCHANGED <<gpuAvailable, lastError, hasError, performanceData>>
  ELSE IF op = "RecordPerformance" THEN
       /\ performanceData' = [performanceData EXCEPT ![arg[1]] = Append(@, arg[2])]
       /\ UNCHANGED <<mode, gpuAvailable, lastError, hasError>>
  ELSE IF op = "SimulateGPUError" THEN
       /\ hasError' = (IF k = 1 THEN TRUE ELSE hasError)
       /\ lastError' = (IF k = 2 THEN ErrSimulated ELSE lastError)
       /\ mode' = (IF k = 3 THEN ModeAfterGPUError(mode) ELSE mode)
       /\ UNCHANGED <<gpuAvailable, performanceData>>
  ELSE IF op = "ClearErrors"
          \/ (op = "AttemptRecovery" /\ RecoveryError(gpuAvailable) = ErrNil) THEN
       /\ hasError' = (IF k = 1 THEN FALSE ELSE hasError)
       /\ lastError' = (IF k = 2 THEN ErrNil ELSE lastError)
       /\ UNCHANGED <<mode, gpuAvailable, performanceData>>
  ELSE UNCHANGED fmVars

\* AttemptRecovery returns from its availability check when no device exists
LastStep(op, k) ==
  \/ k = BodySteps(op)
  \/ (op = "AttemptRecovery" /\ RecoveryError(gpuAvailable) # ErrNil)

\* the lock after the deferred m.mu.Unlock() / m.mu.RUnlock() of a method
Unlocked(op) ==
  IF LockKind(op) = "Lock"
    THEN [mu EXCEPT !.writer = FALSE]
    ELSE [mu EXCEPT !.readers = @ - 1]

\* one field access of the body of the method a goroutine is in; after the
\* last one the deferred unlock runs and the method returns (no other
\* goroutine can tell the two apart: the lock is held until then)
Body(g) ==
  /\ pc[g].at = "body"
  /\ BodyEffect(pc[g].op, pc[g].arg, pc[g].step)
  /\ recorded' = IF pc[g].op = "RecordPerformance"
                   THEN Recorded(recorded, pc[g].arg[1], pc[g].arg[2])
                   ELSE recorded
  /\ IF LastStep(pc[g].op, pc[g].step)
       THEN /\ pc' = [pc EXCEPT ![g] = Idle]
            /\ mu' = Unlocked(pc[g].op)
       ELSE /\ pc' = [pc EXCEPT ![g].step = @ + 1]
            /\ mu' = mu
  /\ UNCHANGED <<lastCall, flipped, modeSet, simVars, physVars, instVars, tailVars>>

NextLock ==
  \/ \E g \in Goroutines, op \in LockedOps : \E arg \in ArgsOf(op) : Invoke(g, op, arg)
  \/ \E g \in Goroutines : Acquire(g)
  \/ \E g \in Goroutines : Body(g)

SpecLock == Init /\ [][NextLock]_vars

(***************************************************************************)
(* The device solve path of main.go.  What the OpenGL driver does is the   *)
(* environment: each step draws the set env of device operations that fail *)
(* during it.  A point names the call it belongs to and the operation.     *)
(***************************************************************************)
\* operations inside one ExecuteFFT call that can fail
FFTPoints == {"compileFFT", "tempAlloc", "stage", "copy", "compileNaive", "naiveExec"}

\* operations of solvePotentialGPU / SolvePoissonGPU outside ExecuteFFT
SolvePoints == {"glInit", "genBuffers", "inputAlloc", "upload", "outputAlloc", "greensCompile",
                "greensExec", "finalAlloc", "download"}

Points == ({"solve"} \X SolvePoints) \cup ({"fwd", "inv"} \X FFTPoints)

RECURSIVE EnvsUpTo(_)
\* the sets of at most k points
EnvsUpTo(k) ==
  IF k = 0 THEN {{}}
  ELSE LET fewer == EnvsUpTo(k - 1)
       IN  fewer \cup {e \cup {q} : e \in fewer, q \in Points}

Envs == EnvsUpTo(MaxFaults)

\* the failing operations of one call
FailsIn(env, call) == {q[2] : q \in {x \in env : x[1] = call}}

GridSides == 1..MaxGrid

RECURSIVE isPowerOfTwo(_)
\* n > 0 && (n & (n-1)) == 0
isPowerOfTwo(n) ==
  IF n <= 0 THEN FALSE
  ELSE IF n = 1 THEN TRUE
  ELSE n % 2 = 0 /\ isPowerOfTwo(n \div 2)

\* compileNaiveDFTShader: the error it returns
compileNaiveDFTShader(fails) ==
  IF "compileNaive" \in fails
    THEN "naive DFT compute shader compilation failed" ELSE ErrNil

\* compileFFTComputeShader: the naive kernel for a side that is no power of
\* two, the Cooley-Tukey kernel otherwise; the error it returns
compileFFTComputeShader(w, h, fails) ==
  IF ~isPowerOfTwo(w) \/ ~isPowerOfTwo(h)
    THEN compileNaiveDFTShader(fails)
    ELSE IF "compileFFT" \in fails
           THEN "FFT compute shader compilation failed" ELSE ErrNil

\* executeNaiveFFT: one dispatch, then gl.GetError
executeNaiveFFT(fails) ==
  IF "naiveExec" \in fails THEN "OpenGL error during naive FFT execution" ELSE ErrNil

\* executeCooleyTukeyFFT: the temporary buffer, the stage dispatches, the final
\* copy.  The stages are not checked one by one: a GL error raised by a stage
\* dispatch stays pending and is read by the gl.GetError of copyComplexBuffer,
\* which always runs (the result is never already in outputBuffer).
executeCooleyTukeyFFT(fails) ==
  IF "tempAlloc" \in fails THEN "failed to create temp buffer"
  ELSE IF "stage" \in fails \/ "copy" \in fails THEN "failed to copy final result"
  ELSE ErrNil

\* the fallback branch of ExecuteFFT (main.go:369-384): compile the naive
\* kernel and run it on the same buffers
executeNaiveRetry(fails) ==
  IF compileNaiveDFTShader(fails) # ErrNil
    THEN [err |-> "Cooley-Tukey failed and naive fallback failed",
          retry |-> "compileFailed", kernel |-> "none"]
    ELSE [err |-> executeNaiveFFT(fails), retry |-> "executed",
          kernel |-> IF executeNaiveFFT(fails) = ErrNil THEN "naive" ELSE "none"]

\* ExecuteFFT(plan, inputBuffer, outputBuffer) (both buffers non-nil): its
\* error, whether the Cooley-Tukey path failed, what became of the naive retry,
\* the kernel that produced the output, the plan it ran with and the number of
\* shader compilations it started, and whether executeCooleyTukeyFFT made its
\* temporary buffer (main.go:421-425).  The kernel is compiled on every call
\* (main.go:352-353).  A failed compileFFTComputeShader returns at once
\* (main.go:353-356); only an error of executeCooleyTukeyFFT reaches the retry,
\* which compiles the naive kernel.
ExecuteFFT(plan, fails) ==
  LET pow2 == isPowerOfTwo(plan.Width) /\ isPowerOfTwo(plan.Height)
      compileErr == compileFFTComputeShader(plan.Width, plan.Height, fails)
      ctErr == executeCooleyTukeyFFT(fails)
      naive == executeNaiveFFT(fails)
      again == executeNaiveRetry(fails)
  IN  IF compileErr # ErrNil
        THEN [ran |-> TRUE, err |-> "failed to compile FFT shader", pow2 |-> pow2,
              ctFailed |-> pow2, retry |-> "none", kernel |-> "none",
              plan |-> plan, compiles |-> 1, temp |-> FALSE]
      ELSE IF ~pow2
        THEN [ran |-> TRUE, err |-> naive, pow2 |-> FALSE, ctFailed |-> FALSE,
              retry |-> "none",
              kernel |-> IF naive = ErrNil THEN "naive" ELSE "none",
              plan |-> plan, compiles |-> 1, temp |-> FALSE]
      ELSE IF ctErr = ErrNil
        THEN [ran |-> TRUE, err |-> ErrNil, pow2 |-> TRUE, ctFailed |-> FALSE,
              retry |-> "none", kernel |-> "ct", plan |-> plan, compiles |-> 1,
              temp |-> TRUE]
        ELSE [ran |-> TRUE, err |-> again.err, pow2 |-> TRUE, ctFailed |-> TRUE,
              retry |-> again.retry, kernel |-> again.kernel,
              plan |-> plan, compiles |-> 2, temp |-> "tempAlloc" \notin fails]

\* InitializeGPU() = InitializeGPUWithMode(false), the raylib window being
\* ready or not: without a window it is headless and opens a hidden one
\* (rl.InitWindow); a failure of gl.Init or of the GenBuffers test closes
\* the window it opened and returns nil and an error; else a fresh context.
\* It returns the context, the error, and leaves the window ready or not.
InitializeGPU(env, ready) ==
  LET headless == ~ready
      needsCleanup == headless
      opened == ready \/ headless
      failed(msg) == [gpu |-> NoGPU, err |-> msg,
                      ready |-> IF needsCleanup THEN FALSE ELSE opened]
  IN  IF "glInit" \in FailsIn(env, "solve")
        THEN failed("failed to initialize OpenGL")
      ELSE IF "genBuffers" \in FailsIn(env, "solve")
        THEN failed("OpenGL context not available: GenBuffers failed")
      ELSE [gpu |-> [isNil |-> FALSE, Initialized |-> TRUE, Headless |-> headless,
                     NeedsCleanup |-> needsCleanup, FftPlanCache |-> {},
                     ShaderCache |-> {}],
            err |-> ErrNil, ready |-> opened]

\* the keys of g.FftPlanCache: fmt.Sprintf("%dx%d_fwd" / "%dx%d_inv")
PlanKey(w, h, isForward) == <<w, h, IF isForward THEN "fwd" ELSE "inv">>

\* CreateGPUFFTPlan2D on an initialized context: the plan it returns
CreateGPUFFTPlan2D(w, h, isForward) ==
  [Width |-> w, Height |-> h, IsForward |-> isForward]

\* mutation: the new plan is not stored
CachePlan_Forget(cache, key, plan) == cache

\* g.FftPlanCache[key] = plan (the map as the set of its entries; a key is
\* only ever stored when the map holds no entry for it)
CachePlan(cache, key, plan) == cache \cup {[key |-> key, plan |-> plan]}

\* the plan look-up of SolvePoissonGPU (main.go:859-868 and 881-891): the
\* cached plan if the key is in the map, else a new plan, stored under the
\* key; created holds the key when CreateGPUFFTPlan2D ran
GetPlan(cache, w, h, isForward) ==
  LET key == PlanKey(w, h, isForward)
      hits == {e \in cache : e.key = key}
      fresh == CreateGPUFFTPlan2D(w, h, isForward)
  IN  IF hits # {}
        THEN [plan |-> (CHOOSE e \in hits : TRUE).plan, created |-> {},
              cache |-> cache]
        ELSE [plan |-> fresh, created |-> {key},
              cache |-> CachePlan(cache, key, fresh)]

\* the body of SolvePoissonGPU, given its two plan look-ups fp and ip and the
\* outcome of its forward and of its inverse ExecuteFFT call (each used only
\* where the code reaches the call)
SolveSteps(g, f, fp, ip, fwd, inv) ==
  LET out(e, g2, fw, iv, made, gc) ==
        [err |-> e, gpu |-> g2, fwd |-> fw, inv |-> iv, created |-> made,
         greensCompiled |-> gc]
      greensCached == "greens_function_shader" \in g.ShaderCache
      g1 == [g EXCEPT !.FftPlanCache = fp.cache]
      g2 == [g1 EXCEPT !.ShaderCache = @ \cup {"greens_function_shader"}]
      g3 == [g2 EXCEPT !.FftPlanCache = ip.cache]
      both == fp.created \cup ip.created
  IN  IF ~g.Initialized
        THEN out("GPU context not initialized", g, NotRun, NotRun, {}, FALSE)
      ELSE IF "inputAlloc" \in f
        THEN out("failed to create input buffer", g, NotRun, NotRun, {}, FALSE)
      ELSE IF "upload" \in f
        THEN out("failed to upload density data", g, NotRun, NotRun, {}, FALSE)
      ELSE IF "outputAlloc" \in f
        THEN out("failed to create FFT output buffer", g, NotRun, NotRun, {}, FALSE)
      ELSE IF fwd.err # ErrNil
        THEN out("failed to execute forward FFT", g1, fwd, NotRun, fp.created, FALSE)
      ELSE IF ~greensCached /\ "greensCompile" \in f
        THEN out("failed to apply Green's function", g1, fwd, NotRun, fp.created, TRUE)
      ELSE IF "greensExec" \in f
        THEN out("failed to apply Green's function", g2, fwd, NotRun, fp.created,
                 ~greensCached)
      ELSE IF "finalAlloc" \in f
        THEN out("failed to create final buffer", g3, fwd, NotRun, both, ~greensCached)
      ELSE IF inv.err # ErrNil
        THEN out("failed to execute inverse FFT", g3, fwd, inv, both, ~greensCached)
      ELSE IF "download" \in f
        THEN out("failed to download result", g3, fwd, inv, both, ~greensCached)
      ELSE out(ErrNil, g3, fwd, inv, both, ~greensCached)

\* the two look-ups of one SolvePoissonGPU call, the inverse one on the map
\* the forward one left
SolveWithPlans(g, f, fp, ip, env) ==
  SolveSteps(g, f, fp, ip, ExecuteFFT(fp.plan, FailsIn(env, "fwd")),
             ExecuteFFT(ip.plan, FailsIn(env, "inv")))

\* SolvePoissonGPU(g, densityGrid, G) on a w x h grid: the error it returns,
\* the context as it leaves it, its two ExecuteFFT calls, the plans it created
\* and whether it compiled the Green's function shader.
SolvePoissonGPU(g, w, h, env) ==
  LET fp == GetPlan(g.FftPlanCache, w, h, TRUE)
  IN  SolveWithPlans(g, FailsIn(env, "solve"), fp,
                     GetPlan(fp.cache, w, h, FALSE), env)

\* mutation: the failure is recorded but the CPU solver is not run
FallbackBranch_NoCPUSolve(r) ==
  [r EXCEPT !.gpuErrorOccurred = TRUE, !.fallbackToCPU = TRUE]

\* the failure branch of solvePotentialGPU, four times in the source:
\* s.gpuErrorOccurred = true; s.fallbackToCPU = true; s.solvePotential(); return
FallbackBranch(r) ==
  [r EXCEPT !.gpuErrorOccurred = TRUE, !.fallbackToCPU = TRUE, !.potentialBy = "cpu"]

\* the branches of solvePotentialGPU, given the outcome init of InitializeGPU
\* and the outcome res of SolvePoissonGPU (each used only where the code
\* reaches the call)
solveBranches(r0, init, res) ==
  LET needInit == r0.gpu.isNil
      r1 == IF needInit
              THEN [r0 EXCEPT !.initAttempted = TRUE, !.gpu = init.gpu,
                              !.initFailed = (init.err # ErrNil),
                              !.ready = init.ready]
              ELSE r0
  IN  IF forceGPUInitFailure THEN FallbackBranch([r0 EXCEPT !.initFailed = TRUE])
      ELSE IF needInit /\ init.err # ErrNil THEN FallbackBranch(r1)
      ELSE IF forceGPUCompFailure
        THEN FallbackBranch([r1 EXCEPT !.solveErr = "forced computation failure"])
      ELSE IF res.err # ErrNil
        THEN FallbackBranch([r1 EXCEPT !.solveCalled = TRUE, !.solveErr = res.err,
                                       !.gpu = res.gpu, !.fwd = res.fwd,
                                       !.inv = res.inv,
                                       !.plansCreated = res.created,
                                       !.greensCompiled = res.greensCompiled])
      ELSE [r1 EXCEPT !.solveCalled = TRUE, !.gpu = res.gpu, !.fwd = res.fwd,
                      !.inv = res.inv, !.plansCreated = res.created,
                      !.greensCompiled = res.greensCompiled,
                      !.potentialBy = "gpu"]

\* solvePotentialGPU: the simulation fields and the record of the call it
\* leaves behind
solvePotentialGPU(env) ==
  LET r0 == [gpu |-> simGpu, gpuErrorOccurred |-> gpuErrorOccurred,
             fallbackToCPU |-> fallbackToCPU, potentialBy |-> potentialBy,
             initAttempted |-> FALSE, initFailed |-> FALSE,
             solveCalled |-> FALSE, solveErr |-> ErrNil,
             fwd |-> NotRun, inv |-> NotRun, plansCreated |-> {},
             greensCompiled |-> FALSE, ready |-> window.ready]
      ctx == IF simGpu.isNil THEN InitializeGPU(env, window.ready).gpu ELSE simGpu
  IN  solveBranches(r0, InitializeGPU(env, window.ready),
                    SolvePoissonGPU(ctx, cfgDims[1], cfgDims[2], env))

\* The physics calls of one step, in the order the code makes them:
\* "deposit" DepositMassToGrid, "solve" SolvePoissonFFT or solvePotentialGPU,
\* "gradient" CalculateGradient, "kick" UpdateVelocities over dt/2, "drift"
\* UpdatePositions over dt.

\* calculateAccelerationFieldGPU
calculateAccelerationFieldGPU == <<"deposit", "solve", "gradient">>

\* physics.RunTimeEvolution
RunTimeEvolution ==
  <<"deposit", "solve", "gradient", "kick", "drift",
    "deposit", "solve", "gradient", "kick">>

\* Simulation.Update: RunTimeEvolution, then the density grid and the
\* potential grid recomputed for display
UpdateSteps == RunTimeEvolution \o <<"deposit", "solve">>

\* mutation: the field is recomputed before the drift
UpdateGPUSteps_PipelineBeforeDrift ==
  <<"kick">> \o calculateAccelerationFieldGPU \o <<"drift", "kick">>

\* Simulation.UpdateGPU: the first kick uses s.AccelFieldX/Z as the previous
\* step left them
UpdateGPUSteps ==
  <<"kick", "drift">> \o calculateAccelerationFieldGPU \o <<"kick">>

\* CalculateGradient makes AccelFieldZ with height rows and then assigns
\* AccelFieldZ[i] for every i < width: index out of range when width > height
CalculateGradientPanics(dims) == dims[1] > dims[2]

RECURSIVE UpToFirstGradient(_)
\* the calls of a step up to and including its first CalculateGradient
UpToFirstGradient(steps) ==
  IF steps = <<>> THEN <<>>
  ELSE IF Head(steps) = "gradient" THEN <<"gradient">>
  ELSE <<Head(steps)>> \o UpToFirstGradient(Tail(steps))

\* the calls a step makes on a grid of the sides dims: all of them, or those
\* up to the CalculateGradient call that panics
StepsMade(steps, dims) ==
  IF CalculateGradientPanics(dims) THEN UpToFirstGradient(steps) ELSE steps

\* history: a context created in this call starts a new record of created
\* plans; a solve on the context the simulation already held adds to it
PlanHistAfter(ph, r) ==
  IF r.initAttempted /\ ~r.initFailed
    THEN [created |-> r.plansCreated, again |-> FALSE]
    ELSE [created |-> ph.created \cup r.plansCreated,
          again |-> ph.again \/ (ph.created \cap r.plansCreated # {})]

\* Simulation.UpdateGPU: half kick with the stored field, drift, then
\* calculateAccelerationFieldGPU (deposit, solvePotentialGPU, gradient), half
\* kick.  It returns nothing.  What solvePotentialGPU did stays done when
\* CalculateGradient panics after it; a caller that recovers from the panic
\* can call again.
UpdateGPU(env) ==
  \E r \in {solvePotentialGPU(env)} :
      /\ simGpu' = r.gpu
      /\ gpuErrorOccurred' = r.gpuErrorOccurred
      /\ fallbackToCPU' = r.fallbackToCPU
      /\ potentialBy' = r.potentialBy
      /\ lastStep' = [op |-> "UpdateGPU",
                      initAttempted |-> r.initAttempted, initFailed |-> r.initFailed,
                      solveCalled |-> r.solveCalled, solveErr |-> r.solveErr,
                      fwd |-> r.fwd, inv |-> r.inv,
                      plansCreated |-> r.plansCreated,
                      greensCompiled |-> r.greensCompiled,
                      steps |-> StepsMade(UpdateGPUSteps, cfgDims),
                      done |-> ~CalculateGradientPanics(cfgDims)]
      /\ planHist' = PlanHistAfter(planHist, r)
      /\ window' = [ready |-> r.ready]
      /\ UNCHANGED <<cfgDims, forceGPUInitFailure, forceGPUCompFailure>>
      /\ UNCHANGED <<newCall, sharedCfg, insts, contexts, accesses>>
      /\ UNCHANGED <<fmVars, lastCall, hist, lockVars, physVars, tailVars>>

\* Simulation.Update: physics.RunTimeEvolution, then the density and the
\* potential recomputed on the CPU for display (s.PotentialGrid is assigned
\* there, main.go:92, which a panic in RunTimeEvolution does not reach)
Update ==
  /\ potentialBy' = IF CalculateGradientPanics(cfgDims) THEN potentialBy ELSE "cpu"
  /\ lastStep' = [NoStep EXCEPT !.op = "Update",
                                !.steps = StepsMade(UpdateSteps, cfgDims),
                                !.done = ~CalculateGradientPanics(cfgDims)]
  /\ UNCHANGED <<cfgDims, simGpu, forceGPUInitFailure, forceGPUCompFailure,
                 gpuErrorOccurred, fallbackToCPU, planHist>>
  /\ UNCHANGED <<fmVars, lastCall, hist, lockVars, physVars, instVars, tailVars>>

\* Simulation.CleanupGPU: if s.gpu != nil, CleanupGPU(s.gpu) (plans and
\* shaders released, rl.CloseWindow() if the context opened the window) and
\* s.gpu = nil
SimCleanupGPU ==
  /\ simGpu' = NoGPU
  /\ window' = IF ~simGpu.isNil /\ simGpu.Initialized /\ simGpu.NeedsCleanup
                 THEN [ready |-> FALSE] ELSE window
  /\ lastStep' = [NoStep EXCEPT !.op = "CleanupGPU"]
  /\ UNCHANGED <<cfgDims, forceGPUInitFailure, forceGPUCompFailure,
                 gpuErrorOccurred, fallbackToCPU, potentialBy, planHist>>
  /\ UNCHANGED <<newCall, sharedCfg, insts, contexts, accesses>>
  /\ UNCHANGED <<fmVars, lastCall, hist, lockVars, physVars, tailVars>>

InitSim ==
  /\ NewFallbackManager
  /\ lastCall = Call("NewFallbackManager", ErrNil)
  /\ flipped = FALSE
  /\ modeSet = FALSE
  /\ recorded = NoRecordings
  /\ mu = [writer |-> FALSE, readers |-> 0]
  /\ pc = [g \in Goroutines |-> Idle]
  /\ \E w \in GridSides, h \in GridSides, fi \in BOOLEAN, fc \in BOOLEAN :
       NewSimulation(<<w, h>>, fi, fc)
  /\ PhysicsIdle
  /\ InstancesIdle
  /\ TailIdle

\* the device operations solvePotentialGPU can reach from the current state:
\* none when initialization is forced to fail, those of InitializeGPU only
\* when the simulation holds no context, and none after them when the
\* computation is forced to fail; on a grid whose sides are not both powers
\* of two ExecuteFFT compiles and runs the naive kernel only.  The failure
\* of an operation the step does not reach changes nothing.
PointsReached ==
  LET initPoints == {"solve"} \X {"glInit", "genBuffers"}
      ctPoints == IF isPowerOfTwo(cfgDims[1]) /\ isPowerOfTwo(cfgDims[2]) THEN {}
                  ELSE {"fwd", "inv"} \X {"compileFFT", "tempAlloc", "stage", "copy"}
  IN  IF forceGPUInitFailure THEN {}
      ELSE (IF simGpu.isNil THEN initPoints ELSE {})
             \cup (IF forceGPUCompFailure THEN {}
                   ELSE Points \ (initPoints \cup ctPoints))

NextSim ==
  \/ \E env \in {e \in Envs : e \subseteq PointsReached} : UpdateGPU(env)
  \/ Update
  \/ SimCleanupGPU

SpecSim == InitSim /\ [][NextSim]_vars

(***************************************************************************)
(* Package physics.  Positions and velocities are kept in half cells (X2 is *)
(* 2 * Position.X), masses are whole numbers, grid cells hold quarters of a *)
(* mass unit: on these inputs the float64 arithmetic of the code is exact.  *)
(***************************************************************************)
CellSides == 1..MaxCells

\* positions around a grid of side n, one cell beyond it on either side
Positions2(n) == -(n + 2)..(n + 2)

\* Go's int(g) for g = g2 / 2: truncation toward zero
IntOf2(g2) == IF g2 >= 0 THEN g2 \div 2 ELSE -((-g2) \div 2)

\* the first lines of the loop body of DepositMassToGrid: gx, gz, i, j, fx, fz
CellOf(p, w, h) ==
  LET gx2 == p.X2 + w
      gz2 == p.Z2 + h
  IN  [gx2 |-> gx2, gz2 |-> gz2, i |-> IntOf2(gx2), j |-> IntOf2(gz2),
       fx2 |-> gx2 - 2 * IntOf2(gx2), fz2 |-> gz2 - 2 * IntOf2(gz2)]

\* mutation: the fourth cell of the cloud is left out
DepositWrites_ThreeCells(p, w, h) ==
  LET c == CellOf(p, w, h)
  IN  IF c.i >= 0 /\ c.i < w - 1 /\ c.j >= 0 /\ c.j < h - 1
        THEN << <<c.i, c.j, p.Mass * (2 - c.fx2) * (2 - c.fz2)>>,
                <<c.i + 1, c.j, p.Mass * c.fx2 * (2 - c.fz2)>>,
                <<c.i, c.j + 1, p.Mass * (2 - c.fx2) * c.fz2>> >>
        ELSE <<>>

\* the writes grid[i][j] += m of one loop iteration, in order, as <<i, j, m>>
DepositWrites(p, w, h) ==
  LET c == CellOf(p, w, h)
  IN  IF c.i >= 0 /\ c.i < w - 1 /\ c.j >= 0 /\ c.j < h - 1
        THEN << <<c.i, c.j, p.Mass * (2 - c.fx2) * (2 - c.fz2)>>,
                <<c.i + 1, c.j, p.Mass * c.fx2 * (2 - c.fz2)>>,
                <<c.i, c.j + 1, p.Mass * (2 - c.fx2) * c.fz2>>,
                <<c.i + 1, c.j + 1, p.Mass * c.fx2 * c.fz2>> >>
        ELSE <<>>

\* a write outside the grid (Go panics with index out of range there)
OutOfGrid(writes, w, h) ==
  \E k \in 1..Len(writes) :
    writes[k][1] \notin 0..(w - 1) \/ writes[k][2] \notin 0..(h - 1)

RECURSIVE ApplyWrites(_, _)
ApplyWrites(grid, writes) ==
  IF writes = <<>> THEN grid
  ELSE LET x == Head(writes)
           c == <<x[1], x[2]>>
       IN  ApplyWrites(IF c \in DOMAIN grid
                         THEN [grid EXCEPT ![c] = @ + x[3]] ELSE grid,
                       Tail(writes))

\* grid := make([][]float64, width), each row make([]float64, height)
ZeroGrid(w, h) == [c \in (0..(w - 1)) \X (0..(h - 1)) |-> 0]

RECURSIVE DepositLoop(_, _, _, _)
\* for _, p := range particles { ... }
DepositLoop(grid, ps, w, h) ==
  IF ps = <<>> THEN grid
  ELSE DepositLoop(ApplyWrites(grid, DepositWrites(Head(ps), w, h)), Tail(ps), w, h)

DepositMassToGrid(ps, w, h) == DepositLoop(ZeroGrid(w, h), ps, w, h)

\* history of the call: the number of particles processed, four times the mass
\* of those whose cell index (i, j) has 0 <= i < w-1 and 0 <= j < h-1, whether
\* a write fell outside the grid, and the last particle with its writes
DepositLogAfter(log, p, w, h) ==
  LET c == CellOf(p, w, h)
      inside == c.i \in 0..(w - 2) /\ c.j \in 0..(h - 2)
  IN  [count |-> log.count + 1,
       eligible |-> log.eligible + (IF inside THEN 4 * p.Mass ELSE 0),
       outOfGrid |-> log.outOfGrid \/ OutOfGrid(DepositWrites(p, w, h), w, h),
       last |-> [i |-> c.i, j |-> c.j, gxNeg |-> c.gx2 < 0, gzNeg |-> c.gz2 < 0,
                 Mass |-> p.Mass, writes |-> DepositWrites(p, w, h)]]

\* one more particle of the slice goes through the loop
DepositStep(p) ==
  /\ depositLog.count < MaxDeposits
  /\ massGrid' = DepositLoop(massGrid, <<p>>, gridDims[1], gridDims[2])
  /\ depositLog' = DepositLogAfter(depositLog, p, gridDims[1], gridDims[2])
  /\ UNCHANGED <<gridDims, particle, lastMove>>
  /\ UNCHANGED <<fmVars, lastCall, hist, lockVars, simVars, instVars, tailVars>>

\* a call of DepositMassToGrid(particles, w, h) before its first particle
InitDeposit ==
  /\ NewFallbackManager
  /\ lastCall = Call("NewFallbackManager", ErrNil)
  /\ flipped = FALSE
  /\ modeSet = FALSE
  /\ recorded = NoRecordings
  /\ mu = [writer |-> FALSE, readers |-> 0]
  /\ pc = [g \in Goroutines |-> Idle]
  /\ NewSimulation(<<DefaultGridSide, DefaultGridSide>>, FALSE, FALSE)
  /\ \E w \in CellSides, h \in CellSides :
       /\ gridDims = <<w, h>>
       /\ massGrid = DepositMassToGrid(<<>>, w, h)
  /\ depositLog = NoDeposits
  /\ particle = NoParticle
  /\ lastMove = NoMove
  /\ InstancesIdle
  /\ TailIdle

NextDeposit ==
  \E x \in Positions2(gridDims[1]), z \in Positions2(gridDims[2]), m \in 1..MaxMass :
    DepositStep([X2 |-> x, Z2 |-> z, VX2 |-> 0, VZ2 |-> 0, Mass |-> m])

SpecDeposit == InitDeposit /\ [][NextDeposit]_vars

(***************************************************************************)
(* The integration of one particle.  UpdateVelocities and UpdatePositions   *)
(* loop over the slice and treat every particle by itself; the force field  *)
(* is the caller's, here a uniform one (every cell holds ax and az).        *)
(***************************************************************************)
Speeds2 == -MaxSpeed..MaxSpeed
Accels == -MaxAccel..MaxAccel
\* dt = 2 * n: the half step dt * 0.5 is the whole number n
DtPairs == 1..MaxDtPairs

\* InterpolateAcceleration on a uniform field: the bilinear weights add up to
\* one, so inside the guard the result is the field value; outside it the
\* named results keep their zero value
InterpolateAcceleration(p, ax, az, w, h) ==
  LET c == CellOf(p, w, h)
  IN  IF c.i >= 0 /\ c.i < w - 1 /\ c.j >= 0 /\ c.j < h - 1
        THEN <<ax, az>> ELSE <<0, 0>>

\* UpdateVelocities(particles, field, dt * 0.5, 0.5) on one particle, dt = 2n:
\* Velocity.X += ax * n * 0.5, that is VX2 += ax * n
UpdateVelocities(p, ax, az, n, w, h) ==
  LET a == InterpolateAcceleration(p, ax, az, w, h)
  IN  [p EXCEPT !.VX2 = @ + a[1] * n, !.VZ2 = @ + a[2] * n]

\* mutation: the wrap at the lower edge is missing
Wrap_UpperOnly(x2, n) == IF x2 > n THEN -n ELSE x2

\* the boundary conditions of UpdatePositions on one coordinate of a grid of
\* side n: above +n/2 the position becomes -n/2, then below -n/2 it becomes
\* +n/2
Wrap(x2, n) ==
  LET up == IF x2 > n THEN -n ELSE x2
  IN  IF up < -n THEN n ELSE up

\* UpdatePositions(particles, dt, width, height) on one particle, dt = 2n
UpdatePositions(p, n, w, h) ==
  [p EXCEPT !.X2 = Wrap(@ + p.VX2 * 2 * n, w),
            !.Z2 = Wrap(@ + p.VZ2 * 2 * n, h)]

\* the kick of a step
Kick(ax, az, n) ==
  /\ particle' = UpdateVelocities(particle, ax, az, n, gridDims[1], gridDims[2])
  /\ particle'.VX2 \in Speeds2
  /\ particle'.VZ2 \in Speeds2
  /\ lastMove' = [lastMove EXCEPT !.op = "UpdateVelocities"]
  /\ UNCHANGED <<gridDims, massGrid, depositLog>>
  /\ UNCHANGED <<fmVars, lastCall, hist, lockVars, simVars, instVars, tailVars>>

\* the drift of a step
Drift(n) ==
  /\ particle' = UpdatePositions(particle, n, gridDims[1], gridDims[2])
  /\ lastMove' = [op |-> "UpdatePositions", drifted |-> TRUE]
  /\ UNCHANGED <<gridDims, massGrid, depositLog>>
  /\ UNCHANGED <<fmVars, lastCall, hist, lockVars, simVars, instVars, tailVars>>

\* a particle anywhere around the grid, with any velocity
InitMotion ==
  /\ NewFallbackManager
  /\ lastCall = Call("NewFallbackManager", ErrNil)
  /\ flipped = FALSE
  /\ modeSet = FALSE
  /\ recorded = NoRecordings
  /\ mu = [writer |-> FALSE, readers |-> 0]
  /\ pc = [g \in Goroutines |-> Idle]
  /\ NewSimulation(<<DefaultGridSide, DefaultGridSide>>, FALSE, FALSE)
  /\ \E w \in CellSides, h \in CellSides :
       /\ gridDims = <<w, h>>
       /\ \E x \in Positions2(w), z \in Positions2(h), vx \in Speeds2, vz \in Speeds2 :
            particle = [X2 |-> x, Z2 |-> z, VX2 |-> vx, VZ2 |-> vz, Mass |-> 1]
  /\ massGrid = <<>>
  /\ depositLog = NoDeposits
  /\ lastMove = NoMove
  /\ InstancesIdle
  /\ TailIdle

NextMotion ==
  \/ \E ax \in Accels, az \in Accels, n \in DtPairs : Kick(ax, az, n)
  \/ \E n \in DtPairs : Drift(n)

SpecMotion == InitMotion /\ [][NextMotion]_vars

(***************************************************************************)
(* Construction of a simulation from a configuration:                      *)
(* simulation.NewSimulation(cfg), and main.NewSimulation() on the package  *)
(* variable cfg, which allocate the same way.                              *)
(***************************************************************************)
CfgValues == -1..MaxCfg

\* a config.Config with the default screen and the given grid and particles
SimConfig(w, d, n) ==
  [ScreenWidth |-> DefaultScreenWidth, ScreenHeight |-> DefaultScreenHeight,
   SimulationWidth |-> w, SimulationDepth |-> d, NumParticles |-> n]

\* Config.Validate: the error it returns
Validate(c) ==
  IF c.ScreenWidth <= 0 THEN "invalid screen width"
  ELSE IF c.ScreenHeight <= 0 THEN "invalid screen height"
  ELSE IF c.SimulationWidth <= 0 THEN "invalid simulation width"
  ELSE IF c.SimulationDepth <= 0 THEN "invalid simulation depth"
  ELSE IF c.NumParticles < 0 THEN "invalid number of particles"
  ELSE ErrNil

\* NewSimulation panicked: make with a negative length
Panicked(c) == [outcome |-> "panic", Config |-> c, rows |-> 0, cols |-> 0,
                particles |-> 0]

\* NewSimulation(cfg): it has no error result and never calls Validate.  The
\* composite literal makes the particle slice, then the four grids of
\* SimulationWidth rows; the loop makes each row SimulationDepth long;
\* InitializeParticles makes NumParticles particles.  make panics on a
\* negative length.  Otherwise the *Simulation is returned, with the sizes it
\* was built with.
NewSimulationFrom(c) ==
  IF c.NumParticles < 0 THEN Panicked(c)
  ELSE IF c.SimulationWidth < 0 THEN Panicked(c)
  ELSE IF c.SimulationWidth > 0 /\ c.SimulationDepth < 0 THEN Panicked(c)
  ELSE [outcome |-> "simulation", Config |-> c, rows |-> c.SimulationWidth,
        cols |-> IF c.SimulationWidth > 0 THEN c.SimulationDepth ELSE 0,
        particles |-> c.NumParticles]

Construct(c) ==
  /\ newCall' = [op |-> "NewSimulation", cfg |-> c, result |-> NewSimulationFrom(c)]
  /\ UNCHANGED <<sharedCfg, insts, contexts, window, accesses>>
  /\ UNCHANGED <<fmVars, lastCall, hist, lockVars, simVars, physVars, tailVars>>

InitNew ==
  /\ NewFallbackManager
  /\ lastCall = Call("NewFallbackManager", ErrNil)
  /\ flipped = FALSE
  /\ modeSet = FALSE
  /\ recorded = NoRecordings
  /\ mu = [writer |-> FALSE, readers |-> 0]
  /\ pc = [g \in Goroutines |-> Idle]
  /\ NewSimulation(<<DefaultGridSide, DefaultGridSide>>, FALSE, FALSE)
  /\ PhysicsIdle
  /\ InstancesIdle
  /\ TailIdle

OthersIdle ==
  /\ NewFallbackManager
  /\ lastCall = Call("NewFallbackManager", ErrNil)
  /\ flipped = FALSE
  /\ modeSet = FALSE
  /\ recorded = NoRecordings
  /\ mu = [writer |-> FALSE, readers |-> 0]
  /\ pc = [g \in Goroutines |-> Idle]
  /\ NewSimulation(<<DefaultGridSide, DefaultGridSide>>, FALSE, FALSE)
  /\ PhysicsIdle
  /\ newCall = NoNewCall

NextNew ==
  \E w \in CfgValues, d \in CfgValues, n \in CfgValues : Construct(SimConfig(w, d, n))

SpecNew == InitNew /\ [][NextNew]_vars

(***************************************************************************)
(* Several main.Simulation values stepped by goroutines of one process     *)
(* (TestParallelSimulation, Simulation.Update, Simulation.UpdateGPU).      *)
(* A step works on the simulation's own particles and grids and reads the  *)
(* shared configuration; a GPU step also uses the simulation's context,    *)
(* which InitializeGPUWithMode builds on raylib's window: one per process, *)
(* tested by rl.IsWindowReady, made by rl.InitWindow and destroyed by      *)
(* rl.CloseWindow.                                                         *)
(***************************************************************************)
ParSides == 1..MaxCells

\* a location of the process's memory
SharedLoc(name) == <<name, 0>>
OwnLoc(name, i) == <<name, i>>

Access(i, loc, write) == [sim |-> i, loc |-> loc, write |-> write]

\* what a step of simulation i touches on either path: the shared cfg (read),
\* its Particles and its four grids (written)
StepAccesses(i) ==
  {Access(i, SharedLoc("cfg"), FALSE), Access(i, OwnLoc("Particles", i), TRUE),
   Access(i, OwnLoc("grids", i), TRUE)}

\* an OpenGL call of simulation i.  gpu.GPU holds no context handle: every
\* gl call works on the one OpenGL context of the process, the one of
\* raylib's window, and changes its state (gl.UseProgram, gl.BindBufferBase,
\* gl.Uniform*, gl.BindBuffer, gl.BufferSubData, the error flag gl.GetError
\* reads and clears)
GLWrite(i) == Access(i, SharedLoc("gl"), TRUE)

\* rl.InitWindow and rl.CloseWindow of simulation i: the window and its
\* OpenGL context are made or destroyed
WindowWrites(i) == {Access(i, SharedLoc("window"), TRUE), GLWrite(i)}

\* what a device solve of simulation i on context c touches besides: its
\* gpu.GPU (plan and shader caches) and the OpenGL context
ContextAccesses(i, c) == {Access(i, OwnLoc("gpu.GPU", c), TRUE), GLWrite(i)}

\* the simulation after the physics of one step: RunTimeEvolution, or the
\* kicks, drift and calculateAccelerationFieldGPU of UpdateGPU
AfterStep(inst, dims) ==
  IF CalculateGradientPanics(dims)
  THEN [inst EXCEPT !.panicked = TRUE, !.pc = "idle"]
  ELSE [inst EXCEPT !.steps = @ + 1, !.pc = "idle"]

\* InitializeGPUWithMode(false) once headless is known: the context it returns
NewContext(headless, creator) ==
  [Initialized |-> TRUE, Headless |-> headless, NeedsCleanup |-> headless,
   cached |-> TRUE, creator |-> creator, refs |-> {creator} \ {0},
   cleanupCalled |-> FALSE]

CanStep(i) ==
  /\ insts[i].pc = "idle"
  /\ ~insts[i].panicked
  /\ insts[i].steps < MaxParSteps

\* Simulation.Update: a CPU step
ParUpdate(i) ==
  /\ CanStep(i)
  /\ insts' = [insts EXCEPT ![i] = AfterStep(@, sharedCfg.dims)]
  /\ accesses' = accesses \cup StepAccesses(i)
  /\ UNCHANGED <<newCall, sharedCfg, contexts, window>>
  /\ UNCHANGED <<fmVars, lastCall, hist, lockVars, simVars, physVars, tailVars>>

\* Simulation.UpdateGPU with s.gpu == nil, up to isHeadlessEnvironment() in
\* InitializeGPUWithMode: the first kick and the drift, the deposit, and the
\* test of the window
ParIsHeadless(i) ==
  /\ CanStep(i)
  /\ insts[i].gpu = 0
  /\ Len(contexts) < MaxCtx
  /\ insts' = [insts EXCEPT ![i].pc = IF window.ready THEN "gl" ELSE "window",
                            ![i].headless = ~window.ready]
  /\ accesses' = accesses \cup StepAccesses(i)
                           \cup {Access(i, SharedLoc("window"), FALSE)}
  /\ UNCHANGED <<newCall, sharedCfg, contexts, window>>
  /\ UNCHANGED <<fmVars, lastCall, hist, lockVars, simVars, physVars, tailVars>>

\* headless: rl.SetConfigFlags and rl.InitWindow(1, 1, ...)
ParInitWindow(i) ==
  /\ insts[i].pc = "window"
  /\ window' = [ready |-> TRUE]
  /\ insts' = [insts EXCEPT ![i].pc = "gl"]
  /\ accesses' = accesses \cup WindowWrites(i)
  /\ UNCHANGED <<newCall, sharedCfg, contexts>>
  /\ UNCHANGED <<fmVars, lastCall, hist, lockVars, simVars, physVars, tailVars>>

\* the failure branch of solvePotentialGPU and the rest of the step: the
\* flags set, the CPU solve, the gradient and the second kick.  fault says
\* that the device failed with the window in place (the simulation would
\* have met the failure alone as well).
FellBack(inst, fault) ==
  AfterStep([inst EXCEPT !.gpuErrorOccurred = TRUE, !.fault = @ \/ fault],
            sharedCfg.dims)

\* the step of simulation i went wrong on the device with no window under
\* it.  The OpenGL calls have no context to work on: the build may report an
\* error (the step falls back to the CPU and goes on) or crash.
WithoutWindow(i) ==
  \/ insts' = [insts EXCEPT ![i] = FellBack(@, FALSE)]
  \/ insts' = [insts EXCEPT ![i].panicked = TRUE, ![i].pc = "idle"]

\* the rest of InitializeGPUWithMode up to its return or its
\* rl.CloseWindow(): gl.Init and the GenBuffers test.  They succeed (glOk)
\* only with a window; then the context is returned and s.gpu = GPU.  They
\* fail when the device fails or when the window was closed meanwhile (then
\* the build may also crash).  After a failure a headless call goes on to
\* close the window; another one returns the error and the step falls back.
ParInitializeGPU(i, glOk) ==
  /\ insts[i].pc = "gl"
  /\ ~window.ready => ~glOk
  /\ accesses' = accesses
                   \cup {GLWrite(i)}
                   \cup (IF glOk THEN {Access(i, OwnLoc("gpu.GPU", Len(contexts) + 1), TRUE)}
                         ELSE {})
  /\ IF glOk
       THEN /\ contexts' = Append(contexts, NewContext(insts[i].headless, i))
            /\ insts' = [insts EXCEPT ![i].gpu = Len(contexts) + 1,
                                      ![i].pc = "solve"]
       ELSE /\ UNCHANGED contexts
            /\ \/ insts' = [insts EXCEPT ![i] =
                              IF insts[i].headless
                                THEN [@ EXCEPT !.pc = "close",
                                               !.fault = @ \/ window.ready]
                                ELSE FellBack(@, window.ready)]
               \/ /\ ~window.ready
                  /\ insts' = [insts EXCEPT ![i].panicked = TRUE, ![i].pc = "idle"]
  /\ UNCHANGED <<newCall, sharedCfg, window>>
  /\ UNCHANGED <<fmVars, lastCall, hist, lockVars, simVars, physVars, tailVars>>

\* the failure returns of a headless InitializeGPUWithMode: if needsCleanup
\* { rl.CloseWindow() }, whichever call opened the window that is there
\* now; then the error is returned and the step falls back to the CPU
ParCloseWindow(i) ==
  /\ insts[i].pc = "close"
  /\ window' = [ready |-> FALSE]
  /\ insts' = [insts EXCEPT ![i] = FellBack(@, FALSE)]
  /\ accesses' = accesses \cup WindowWrites(i)
  /\ UNCHANGED <<newCall, sharedCfg, contexts>>
  /\ UNCHANGED <<fmVars, lastCall, hist, lockVars, simVars, physVars, tailVars>>

\* SolvePoissonGPU on the context of simulation i, then the gradient and the
\* second kick.  The solve succeeds (glOk) only with a window; with one it
\* fails when the device fails.
SolveOnContext(i, glOk) ==
  /\ ~window.ready => ~glOk
  /\ IF glOk THEN insts' = [insts EXCEPT ![i] = AfterStep(@, sharedCfg.dims)]
     ELSE IF window.ready THEN insts' = [insts EXCEPT ![i] = FellBack(@, TRUE)]
     ELSE WithoutWindow(i)
  /\ UNCHANGED <<newCall, sharedCfg, contexts, window>>
  /\ UNCHANGED <<fmVars, lastCall, hist, lockVars, simVars, physVars, tailVars>>

\* the rest of the step that made its context: the solve on it
ParSolvePoissonGPU(i, glOk) ==
  /\ insts[i].pc = "solve"
  /\ SolveOnContext(i, glOk)
  /\ accesses' = accesses \cup ContextAccesses(i, insts[i].gpu)

\* Simulation.UpdateGPU with s.gpu != nil: the solve reuses the context
ParUpdateGPU(i, glOk) ==
  /\ CanStep(i)
  /\ insts[i].gpu # 0
  /\ SolveOnContext(i, glOk)
  /\ accesses' = accesses \cup StepAccesses(i)
                           \cup ContextAccesses(i, insts[i].gpu)

\* CleanupGPU(g): plans and shaders released (gl.DeleteProgram for each
\* cached shader), the window closed if this context made it, Initialized
\* cleared
TornDown(c) == [c EXCEPT !.Initialized = FALSE, !.cached = FALSE,
                         !.cleanupCalled = TRUE]

\* main's Simulation.CleanupGPU
ParCleanupGPU(i) ==
  /\ insts[i].pc = "idle"
  /\ insts[i].gpu # 0
  /\ contexts' = [contexts EXCEPT ![insts[i].gpu] = TornDown(@)]
  /\ window' = IF contexts[insts[i].gpu].NeedsCleanup
               THEN [ready |-> FALSE] ELSE window
  /\ insts' = [insts EXCEPT ![i].gpu = 0]
  /\ accesses' = accesses \cup {Access(i, OwnLoc("gpu.GPU", insts[i].gpu), TRUE)}
                   \cup (IF contexts[insts[i].gpu].cached THEN {GLWrite(i)} ELSE {})
                   \cup (IF contexts[insts[i].gpu].NeedsCleanup
                         THEN WindowWrites(i) ELSE {})
  /\ UNCHANGED <<newCall, sharedCfg>>
  /\ UNCHANGED <<fmVars, lastCall, hist, lockVars, simVars, physVars, tailVars>>

\* the process starts with the shared configuration read, and with the
\* application's window open (main) or without one (tests, headless)
InitPar ==
  /\ OthersIdle
  /\ \E w \in ParSides, h \in ParSides, win \in BOOLEAN :
       /\ sharedCfg = [dims |-> <<w, h>>, window |-> win]
       /\ window = [ready |-> win]
  /\ insts = [i \in Sims |-> NewInst]
  /\ contexts = <<>>
  /\ accesses = {}
  /\ TailIdle

NextPar ==
  \E i \in Sims :
    \/ ParUpdate(i)
    \/ ParIsHeadless(i)
    \/ ParInitWindow(i)
    \/ \E glOk \in BOOLEAN : ParInitializeGPU(i, glOk)
    \/ ParCloseWindow(i)
    \/ \E glOk \in BOOLEAN : ParSolvePoissonGPU(i, glOk)
    \/ \E glOk \in BOOLEAN : ParUpdateGPU(i, glOk)
    \/ ParCleanupGPU(i)

SpecPar == InitPar /\ [][NextPar]_vars

(***************************************************************************)
(* simulation.Simulation (internal/simulation) and the device contexts its *)
(* callers hand to it: SetGPU stores the pointer it is given, CleanupGPU   *)
(* drops it.                                                               *)
(***************************************************************************)
\* the caller builds a *gpu.GPU (the package has no constructor: a literal, or
\* main's InitializeGPU)
OwnNewContext(headless) ==
  /\ Len(contexts) < MaxCtx
  /\ contexts' = Append(contexts, NewContext(headless, 0))
  /\ UNCHANGED <<newCall, sharedCfg, insts, window, accesses>>
  /\ UNCHANGED <<fmVars, lastCall, hist, lockVars, simVars, physVars, tailVars>>

\* Simulation.SetGPU(gpuCtx): s.gpu = gpuCtx, nil (0) included
SetGPU(i, c) ==
  /\ insts' = [insts EXCEPT ![i].gpu = c]
  /\ contexts' = IF c = 0 THEN contexts
                 ELSE [contexts EXCEPT ![c].refs = @ \cup {i}]
  /\ UNCHANGED <<newCall, sharedCfg, window, accesses>>
  /\ UNCHANGED <<fmVars, lastCall, hist, lockVars, simVars, physVars, tailVars>>

\* Simulation.CleanupGPU: if s.gpu != nil { s.gpu = nil }, nothing else
OwnCleanupGPU(i) ==
  /\ insts[i].gpu # 0
  /\ insts' = [insts EXCEPT ![i].gpu = 0]
  /\ contexts' = [contexts EXCEPT ![insts[i].gpu].cleanupCalled = TRUE]
  /\ UNCHANGED <<newCall, sharedCfg, window, accesses>>
  /\ UNCHANGED <<fmVars, lastCall, hist, lockVars, simVars, physVars, tailVars>>

InitOwn ==
  /\ OthersIdle
  /\ sharedCfg = [dims |-> <<DefaultGridSide, DefaultGridSide>>, window |-> FALSE]
  /\ window = [ready |-> FALSE]
  /\ insts = [i \in Sims |-> NewInst]
  /\ contexts = <<>>
  /\ accesses = {}
  /\ TailIdle

NextOwn ==
  \/ \E headless \in BOOLEAN : OwnNewContext(headless)
  \/ \E i \in Sims :
       \/ \E c \in 0..Len(contexts) : SetGPU(i, c)
       \/ OwnCleanupGPU(i)
       \/ ParUpdate(i)

SpecOwn == InitOwn /\ [][NextOwn]_vars

(***************************************************************************)
(* renderer.RenderLoop.  The type has no lock and Run blocks its caller,   *)
(* so the other methods are called before Run, after it has returned, or   *)
(* from a callback of the frame being executed.                            *)
(***************************************************************************)
\* the frame times handed to RecordFrameTime, in seconds
FrameTimes == {1}

\* the rates handed to SetTargetFPS: the default and the 30 of
\* TestFrameRateLimit
TargetRates == {30, DefaultTargetFPS}

\* r.frameTimes after append and the trim to maxFrameSamples
TrimSamples(times, max) == IF Len(times) > max THEN Tail(times) ELSE times

\* RecordFrameTime(frameTime)
AfterRecordFrameTime(r, frameTime) ==
  [r EXCEPT !.lastFrameTime = frameTime,
            !.frameTimes = TrimSamples(Append(@, frameTime), r.maxFrameSamples),
            !.actualFPS = IF frameTime > 0 THEN 1 \div frameTime ELSE @]

\* GetFrameCount: return len(r.frameTimes)
GetFrameCount(r) == Len(r.frameTimes)

\* Start: running = true, shouldClose = false
AfterStart(r) == [r EXCEPT !.running = TRUE, !.shouldClose = FALSE]

\* mutation: the close request is not tested
RunContinues_IgnoreClose(r) == r.running

\* the loop condition of Run: r.running && !r.shouldClose
RunContinues(r) == r.running /\ ~r.shouldClose

\* the caller is free to call Run or ExecuteFrame: no call of Run is executing
Outside == runPc \in {"idle", "returned"}

\* a method can be called: by the caller outside Run, or by a callback of the
\* frame Run is executing
Callable == runPc \in {"idle", "returned", "frame"}

RecordFrameTime(frameTime) ==
  /\ Callable
  /\ loopHist.recordings < MaxRecordings
  /\ loop' = AfterRecordFrameTime(loop, frameTime)
  /\ loopHist' = [loopHist EXCEPT !.recordings = @ + 1]
  /\ UNCHANGED runPc
  /\ UNCHANGED <<fmVars, lastCall, hist, lockVars, simVars, physVars, instVars, fftVars, gridVars>>

\* SetTargetFPS(fps): targetFPS = fps, targetFrameTime = 1.0 / float64(fps)
SetTargetFPS(fps) ==
  /\ Callable
  /\ loop' = [loop EXCEPT !.targetFPS = fps,
                          !.targetFrameTime = [num |-> 1, den |-> fps]]
  /\ UNCHANGED <<runPc, loopHist>>
  /\ UNCHANGED <<fmVars, lastCall, hist, lockVars, simVars, physVars, instVars, fftVars, gridVars>>

\* RequestClose: shouldClose = true
RequestClose ==
  /\ Callable
  /\ loop' = [loop EXCEPT !.shouldClose = TRUE]
  /\ loopHist' = [loopHist EXCEPT !.requested = TRUE,
                                  !.requestedInRun = @ \/ (runPc = "frame")]
  /\ UNCHANGED runPc
  /\ UNCHANGED <<fmVars, lastCall, hist, lockVars, simVars, physVars, instVars, fftVars, gridVars>>

\* ResetCloseRequest: shouldClose = false
ResetCloseRequest ==
  /\ Callable
  /\ loop' = [loop EXCEPT !.shouldClose = FALSE]
  /\ loopHist' = [loopHist EXCEPT !.requested = FALSE, !.requestedInRun = FALSE]
  /\ UNCHANGED runPc
  /\ UNCHANGED <<fmVars, lastCall, hist, lockVars, simVars, physVars, instVars, fftVars, gridVars>>

\* Start: running = true, and the close request is cleared
Start ==
  /\ Callable
  /\ loop' = AfterStart(loop)
  /\ loopHist' = [loopHist EXCEPT !.requestedInRun = FALSE]
  /\ UNCHANGED runPc
  /\ UNCHANGED <<fmVars, lastCall, hist, lockVars, simVars, physVars, instVars, fftVars, gridVars>>

\* Stop: running = false
Stop ==
  /\ Callable
  /\ loop' = [loop EXCEPT !.running = FALSE]
  /\ UNCHANGED <<runPc, loopHist>>
  /\ UNCHANGED <<fmVars, lastCall, hist, lockVars, simVars, physVars, instVars, fftVars, gridVars>>

\* ExecuteFrame called on its own: the callbacks, then r.frameCount++.  It
\* tests neither running nor shouldClose and records no frame time.
ExecuteFrame ==
  /\ Outside
  /\ loop.frameCount < MaxFrames
  /\ loop' = [loop EXCEPT !.frameCount = @ + 1]
  /\ UNCHANGED <<runPc, loopHist>>
  /\ UNCHANGED <<fmVars, lastCall, hist, lockVars, simVars, physVars, instVars, fftVars, gridVars>>

\* Run is called, for the first time or again: r.Start()
RunStart ==
  /\ Outside
  /\ loop' = AfterStart(loop)
  /\ runPc' = "test"
  /\ loopHist' = [loopHist EXCEPT !.frames = 0, !.requestedInRun = FALSE]
  /\ UNCHANGED <<fmVars, lastCall, hist, lockVars, simVars, physVars, instVars, fftVars, gridVars>>

\* the loop condition holds: the frame begins (ExecuteFrame is entered and
\* runs its callbacks)
RunFrame ==
  /\ runPc = "test"
  /\ RunContinues(loop)
  /\ loop.frameCount < MaxFrames
  /\ loopHist.recordings < MaxRecordings
  /\ runPc' = "frame"
  /\ loopHist' = [loopHist EXCEPT
       !.frames = @ + 1,
       !.frameAfterRequest = @ \/ loopHist.requested,
       !.frameAfterRunRequest = @ \/ loopHist.requestedInRun]
  /\ UNCHANGED loop
  /\ UNCHANGED <<fmVars, lastCall, hist, lockVars, simVars, physVars, instVars, fftVars, gridVars>>

\* the callbacks are done: ExecuteFrame counts the frame and returns to Run
RunFrameEnd ==
  /\ runPc = "frame"
  /\ loop' = [loop EXCEPT !.frameCount = @ + 1]
  /\ runPc' = "record"
  /\ UNCHANGED loopHist
  /\ UNCHANGED <<fmVars, lastCall, hist, lockVars, simVars, physVars, instVars, fftVars, gridVars>>

\* Run records the time the frame took: r.RecordFrameTime(frameTime)
RunRecordFrameTime(frameTime) ==
  /\ runPc = "record"
  /\ loop' = AfterRecordFrameTime(loop, frameTime)
  /\ loopHist' = [loopHist EXCEPT !.recordings = @ + 1]
  /\ runPc' = "test"
  /\ UNCHANGED <<fmVars, lastCall, hist, lockVars, simVars, physVars, instVars, fftVars, gridVars>>

\* the loop condition fails: r.Stop(), Run returns
RunReturn ==
  /\ runPc = "test"
  /\ ~RunContinues(loop)
  /\ loop' = [loop EXCEPT !.running = FALSE]
  /\ runPc' = "returned"
  /\ loopHist' = [loopHist EXCEPT !.runningAtReturn = loop'.running]
  /\ UNCHANGED <<fmVars, lastCall, hist, lockVars, simVars, physVars, instVars, fftVars, gridVars>>

InitLoop ==
  /\ OthersIdle
  /\ InstancesIdle
  /\ LoopIdle
  /\ FFTIdle
  /\ GridIdle

NextLoop ==
  \/ \E ft \in FrameTimes : RecordFrameTime(ft)
  \/ \E fps \in TargetRates : SetTargetFPS(fps)
  \/ RequestClose
  \/ ResetCloseRequest
  \/ Start
  \/ Stop
  \/ ExecuteFrame
  \/ RunStart
  \/ RunFrame
  \/ RunFrameEnd
  \/ \E ft \in FrameTimes : RunRecordFrameTime(ft)
  \/ RunReturn

SpecLoop == InitLoop /\ [][NextLoop]_vars

(***************************************************************************)
(* One call of ExecuteFFT(plan, inputBuffer, outputBuffer) and the device. *)
(* The host issues commands and does not wait for them; the device takes   *)
(* them up in the order issued.  gl.DispatchCompute starts a kernel that   *)
(* runs for a while; gl.MemoryBarrier(SHADER_STORAGE_BARRIER_BIT) holds    *)
(* back every later command until the writes of the kernels issued before  *)
(* it have completed.                                                      *)
(***************************************************************************)
FFTSides == 1..MaxFFTSide

RECURSIVE Log2(_)
\* int(math.Log2(float64(n))) for n >= 1
Log2(n) == IF n <= 1 THEN 0 ELSE 1 + Log2(n \div 2)

\* the stages of one pass: the bit reversal (stage -1), then the butterfly
\* stages 0 .. numStages-1
PassStages(pass, numStages) ==
  <<[pass |-> pass, stage |-> -1]>>
    \o [k \in 1..numStages |-> [pass |-> pass, stage |-> k - 1]]

\* executeCooleyTukeyFFT: the stages in the order it issues them
CooleyTukeyStages(plan) ==
  PassStages("row", Log2(plan.Width)) \o PassStages("col", Log2(plan.Height))

\* mutation: the dispatch is not followed by a memory barrier
StageCommands_NoBarrier(st, cur) ==
  <<[cmd |-> "dispatch", kind |-> "stage", pass |-> st.pass, stage |-> st.stage,
     read |-> cur[1], write |-> cur[2]]>>

\* one stage: BindBufferBase(0, currentInput), BindBufferBase(1, currentOutput),
\* DispatchCompute, MemoryBarrier
StageCommands(st, cur) ==
  <<[cmd |-> "dispatch", kind |-> "stage", pass |-> st.pass, stage |-> st.stage,
     read |-> cur[1], write |-> cur[2]],
    [cmd |-> "barrier"]>>

\* mutation: the buffers are not swapped
Swap_None(cur) == cur

\* currentInput, currentOutput = currentOutput, currentInput
Swap(cur) == <<cur[2], cur[1]>>

\* copyComplexBuffer(plan, src, outputBuffer): gl.CopyBufferSubData
CopyCommand(src) ==
  [cmd |-> "dispatch", kind |-> "copy", pass |-> "none", stage |-> 0,
   read |-> src, write |-> "output"]

\* executeNaiveFFT: one dispatch from inputBuffer to outputBuffer, and a barrier
NaiveCommands ==
  <<[cmd |-> "dispatch", kind |-> "naive", pass |-> "none", stage |-> 0,
     read |-> "input", write |-> "output"],
    [cmd |-> "barrier"]>>

\* what a kernel leaves in the buffer it writes
Produces(c, bufs) ==
  IF c.kind = "copy" THEN bufs[c.read].producer ELSE <<c.kind, c.pass, c.stage>>

\* ExecuteFFT is called: compileFFTComputeShader, then the choice of kernel
FFTStart(plan, compiled) ==
  /\ fftPc.at = "idle"
  /\ fftPlan' = plan
  /\ fftPc' = IF ~compiled
                THEN [at |-> "done", i |-> 0, err |-> "failed to compile FFT shader"]
              ELSE IF ~isPowerOfTwo(plan.Width) \/ ~isPowerOfTwo(plan.Height)
                THEN [at |-> "naive", i |-> 0, err |-> ErrNil]
                ELSE [at |-> "temp", i |-> 0, err |-> ErrNil]
  /\ UNCHANGED <<fftCur, fftBufs, devQueue, devRunning, fftLog>>
  /\ UNCHANGED <<fmVars, lastCall, hist, lockVars, simVars, physVars, instVars, loopVars, gridVars>>

\* executeCooleyTukeyFFT: createTempComplexBuffer, currentInput and
\* currentOutput set; on failure the call returns and ExecuteFFT retries
FFTCreateTemp(created) ==
  /\ fftPc.at = "temp"
  /\ fftPc' = IF created THEN [at |-> "stage", i |-> 1, err |-> ErrNil]
              ELSE [at |-> "retry", i |-> 0, err |-> "failed to create temp buffer"]
  /\ fftCur' = <<"input", "temp">>
  /\ UNCHANGED <<fftPlan, fftBufs, devQueue, devRunning, fftLog>>
  /\ UNCHANGED <<fmVars, lastCall, hist, lockVars, simVars, physVars, instVars, loopVars, gridVars>>

\* one stage is issued and the buffers are swapped
FFTStage ==
  /\ fftPc.at = "stage"
  /\ devQueue' = devQueue \o StageCommands(CooleyTukeyStages(fftPlan)[fftPc.i], fftCur)
  /\ fftCur' = Swap(fftCur)
  /\ fftPc' = IF fftPc.i = Len(CooleyTukeyStages(fftPlan))
                THEN [fftPc EXCEPT !.at = "copy"]
                ELSE [fftPc EXCEPT !.i = @ + 1]
  /\ UNCHANGED <<fftPlan, fftBufs, devRunning, fftLog>>
  /\ UNCHANGED <<fmVars, lastCall, hist, lockVars, simVars, physVars, instVars, loopVars, gridVars>>

\* the result is copied to outputBuffer if currentInput is not that buffer:
\* copyComplexBuffer issues gl.CopyBufferSubData and then reads gl.GetError.
\* The GL takes the copy (queued) or rejects it, which raises an error; the
\* error read may also be one a stage left pending, and then the copy was
\* taken all the same.
FFTCopy(queued, glOk) ==
  /\ fftPc.at = "copy"
  /\ ~queued => ~glOk
  /\ IF fftCur[1] = "output"
       THEN /\ fftPc' = [fftPc EXCEPT !.at = "check"]
            /\ UNCHANGED devQueue
       ELSE /\ fftPc' = IF glOk THEN [fftPc EXCEPT !.at = "check"]
                        ELSE [at |-> "retry", i |-> 0,
                              err |-> "failed to copy final result"]
            /\ devQueue' = IF queued THEN Append(devQueue, CopyCommand(fftCur[1]))
                           ELSE devQueue
  /\ UNCHANGED <<fftPlan, fftCur, fftBufs, devRunning, fftLog>>
  /\ UNCHANGED <<fmVars, lastCall, hist, lockVars, simVars, physVars, instVars, loopVars, gridVars>>

\* gl.GetError at the end of executeCooleyTukeyFFT
FFTCheck(glOk) ==
  /\ fftPc.at = "check"
  /\ fftPc' = IF glOk THEN [at |-> "done", i |-> 0, err |-> ErrNil]
              ELSE [at |-> "retry", i |-> 0,
                    err |-> "OpenGL error during Cooley-Tukey FFT"]
  /\ UNCHANGED <<fftPlan, fftCur, fftBufs, devQueue, devRunning, fftLog>>
  /\ UNCHANGED <<fmVars, lastCall, hist, lockVars, simVars, physVars, instVars, loopVars, gridVars>>

\* ExecuteFFT after executeCooleyTukeyFFT returned an error:
\* compileNaiveDFTShader, then executeNaiveFFT on the same two buffers
FFTRetry(compiled) ==
  /\ fftPc.at = "retry"
  /\ fftPc' = IF compiled THEN [at |-> "naive", i |-> 1, err |-> ErrNil]
              ELSE [at |-> "done", i |-> 0,
                    err |-> "Cooley-Tukey failed and naive fallback failed"]
  /\ UNCHANGED <<fftPlan, fftCur, fftBufs, devQueue, devRunning, fftLog>>
  /\ UNCHANGED <<fmVars, lastCall, hist, lockVars, simVars, physVars, instVars, loopVars, gridVars>>

\* executeNaiveFFT: the dispatch, the barrier, gl.GetError
FFTNaive(glOk) ==
  /\ fftPc.at = "naive"
  /\ devQueue' = devQueue \o NaiveCommands
  /\ fftPc' = [at |-> "done", i |-> fftPc.i,
               err |-> IF glOk THEN ErrNil
                       ELSE "OpenGL error during naive FFT execution"]
  /\ UNCHANGED <<fftPlan, fftCur, fftBufs, devRunning, fftLog>>
  /\ UNCHANGED <<fmVars, lastCall, hist, lockVars, simVars, physVars, instVars, loopVars, gridVars>>

\* the device takes up the next command.  A kernel starts to read one buffer
\* and to write the other.  A copy is an ordinary GL command, ordered against
\* the commands around it by the GL itself: it is done when taken up.
DevStart ==
  /\ devQueue # <<>>
  /\ Head(devQueue).cmd = "dispatch"
  /\ devQueue' = Tail(devQueue)
  /\ devRunning' = IF Head(devQueue).kind = "copy" THEN devRunning
                   ELSE devRunning \cup {Head(devQueue)}
  /\ fftLog' = Append(fftLog, [kind |-> Head(devQueue).kind,
                               pass |-> Head(devQueue).pass,
                               stage |-> Head(devQueue).stage,
                               read |-> Head(devQueue).read,
                               write |-> Head(devQueue).write,
                               readHolds |-> fftBufs[Head(devQueue).read]])
  /\ fftBufs' = [fftBufs EXCEPT ![Head(devQueue).write] =
                   Holds(Produces(Head(devQueue), fftBufs),
                         Head(devQueue).kind = "copy")]
  /\ UNCHANGED <<fftPlan, fftPc, fftCur>>
  /\ UNCHANGED <<fmVars, lastCall, hist, lockVars, simVars, physVars, instVars, loopVars, gridVars>>

\* a kernel completes: the buffer it wrote is written in full
DevFinish(c) ==
  /\ c \in devRunning
  /\ devRunning' = devRunning \ {c}
  /\ fftBufs' = [fftBufs EXCEPT ![c.write].complete = TRUE]
  /\ UNCHANGED <<fftPlan, fftPc, fftCur, devQueue, fftLog>>
  /\ UNCHANGED <<fmVars, lastCall, hist, lockVars, simVars, physVars, instVars, loopVars, gridVars>>

\* the barrier is passed once every kernel issued before it has completed
DevBarrier ==
  /\ devQueue # <<>>
  /\ Head(devQueue).cmd = "barrier"
  /\ devRunning = {}
  /\ devQueue' = Tail(devQueue)
  /\ UNCHANGED <<fftPlan, fftPc, fftCur, fftBufs, devRunning, fftLog>>
  /\ UNCHANGED <<fmVars, lastCall, hist, lockVars, simVars, physVars, instVars, loopVars, gridVars>>

InitFFT ==
  /\ OthersIdle
  /\ InstancesIdle
  /\ LoopIdle
  /\ FFTIdle
  /\ GridIdle

NextFFT ==
  \/ \E w \in FFTSides, h \in FFTSides, fwd \in BOOLEAN, compiled \in BOOLEAN :
       FFTStart([Width |-> w, Height |-> h, IsForward |-> fwd], compiled)
  \/ \E created \in BOOLEAN : FFTCreateTemp(created)
  \/ FFTStage
  \/ \E queued \in BOOLEAN, glOk \in BOOLEAN : FFTCopy(queued, glOk)
  \/ \E glOk \in BOOLEAN : FFTCheck(glOk)
  \/ \E compiled \in BOOLEAN : FFTRetry(compiled)
  \/ \E glOk \in BOOLEAN : FFTNaive(glOk)
  \/ DevStart
  \/ \E c \in devRunning : DevFinish(c)
  \/ DevBarrier

SpecFFT == InitFFT /\ [][NextFFT]_vars

(***************************************************************************)
(* The grid functions of package physics and the frequency-space kernel of *)
(* the device path, each called on one grid.  The grid holds one value     *)
(* away from zero; indices count from 0 as in the source.  Accelerations   *)
(* are kept doubled (the source halves a difference of two cells).         *)
(***************************************************************************)
\* the cell [i][j] of the grid handed in
ValueAt(g, i, j) == IF <<i, j>> = g.at THEN g.val ELSE 0

\* the outcome of indexing a slice of length n at i: Go panics out of range
InRange(i, n) == 0 <= i /\ i < n

\* physics.CalculateGradient(potentialGrid, width, height).  AccelFieldX is
\* made with width rows and AccelFieldZ with height rows; the loop over the
\* rows of AccelFieldX makes row i of both (the call panics at the first i
\* that AccelFieldZ does not have, a row it does not reach stays nil); the
\* double loop then fills the cells with the central differences.
CalculateGradientOf(g) ==
  LET width == g.w
      height == g.h
      prev(k, n) == (k - 1 + n) % n
      next(k, n) == (k + 1) % n
      rowsZ == height
  IN  IF \E i \in 0..(width - 1) : ~InRange(i, rowsZ)
        THEN [done |-> TRUE, panicked |-> TRUE, AccelFieldX |-> <<>>,
              AccelFieldZ |-> <<>>]
        ELSE [done |-> TRUE, panicked |-> FALSE,
              AccelFieldX |->
                [i \in 0..(width - 1) |-> [j \in 0..(height - 1) |->
                   0 - (ValueAt(g, next(i, width), j) - ValueAt(g, prev(i, width), j))]],
              AccelFieldZ |->
                [i \in 0..(rowsZ - 1) |->
                   IF i < width
                     THEN [j \in 0..(height - 1) |->
                             0 - (ValueAt(g, i, next(j, height))
                                    - ValueAt(g, i, prev(j, height)))]
                     ELSE <<>>]]

\* a frequency-space coefficient: as the transform left it, set to zero, or
\* multiplied by -4 pi G / kSquared for the wave numbers kx, kz
Coefficient(kind, c, kx, kz) == [kind |-> kind, coef |-> c, kx |-> kx, kz |-> kz]

ZeroCoefficient == Coefficient("zero", 0, 0, 0)

\* the wave number of index u on a side of n cells: u, or u - n past the middle
WaveNumber(u, n) == IF u > n \div 2 THEN u - n ELSE u

\* kSquared == 0 for (kx * 2 pi / width)^2 + (kz * 2 pi / height)^2, decided on
\* the whole number kSquared * (width * height / (2 pi))^2
kSquaredIsZero(kx, kz, width, height) ==
  (kx * height) * (kx * height) + (kz * width) * (kz * width) = 0

\* the frequency-space loop of SolvePoissonFFT on the fftGrid FFT2D returned
FourierSpace(g) ==
  [u \in 0..(g.w - 1) |-> [v \in 0..(g.h - 1) |->
     LET kx == WaveNumber(u, g.w)
         kz == WaveNumber(v, g.h)
     IN  IF kSquaredIsZero(kx, kz, g.w, g.h)
           THEN ZeroCoefficient
           ELSE Coefficient("scaled", ValueAt(g, u, v), kx, kz)]]

\* the buffer SolvePoissonGPU works on: cell [i][j] at index i * height + j
BufferOf(g) ==
  [index \in 0..(g.w * g.h - 1) |->
     Coefficient("raw", ValueAt(g, index \div g.h, index % g.h), 0, 0)]

\* mutation: the kernel scales every coefficient
GreensKernel_NoDCTest(buffer, width, height) ==
  [index \in DOMAIN buffer |->
     Coefficient("scaled", buffer[index].coef,
                 WaveNumber(index \div height, width),
                 WaveNumber(index % height, height))]

\* the compute shader of applyGreensFunction, one invocation per index
GreensKernel(buffer, width, height) ==
  [index \in DOMAIN buffer |->
     LET u == index \div height
         v == index % height
         kx == WaveNumber(u, width)
         kz == WaveNumber(v, height)
     IN  IF kSquaredIsZero(kx, kz, width, height)
           THEN ZeroCoefficient
           ELSE Coefficient("scaled", buffer[index].coef, kx, kz)]

\* physics.CalculateGradient on the grid
CalculateGradient ==
  /\ ~gradOut.done
  /\ gradOut' = CalculateGradientOf(gridIn)
  /\ UNCHANGED <<gridIn, cpuOut, gpuOut>>
  /\ UNCHANGED <<fmVars, lastCall, hist, lockVars, simVars, physVars, instVars, loopVars, fftVars>>

\* physics.SolvePoissonFFT up to its IFFT2D call, the grid being what FFT2D
\* returned
SolvePoissonFFT ==
  /\ ~cpuOut.done
  /\ cpuOut' = [done |-> TRUE, err |-> ErrNil, data |-> FourierSpace(gridIn)]
  /\ UNCHANGED <<gridIn, gradOut, gpuOut>>
  /\ UNCHANGED <<fmVars, lastCall, hist, lockVars, simVars, physVars, instVars, loopVars, fftVars>>

\* applyGreensFunction(g, buffer, width, height, G), the buffer holding what
\* the forward transform wrote: no dispatch when the shader does not compile;
\* an OpenGL error is reported after the kernel has run
applyGreensFunction(compiled, glOk) ==
  /\ ~gpuOut.done
  /\ gpuOut' =
       IF ~compiled
         THEN [done |-> TRUE, err |-> "failed to compile Green's function shader",
               data |-> BufferOf(gridIn)]
         ELSE [done |-> TRUE,
               err |-> IF glOk THEN ErrNil
                       ELSE "OpenGL error in Green's function shader",
               data |-> GreensKernel(BufferOf(gridIn), gridIn.w, gridIn.h)]
  /\ UNCHANGED <<gridIn, gradOut, cpuOut>>
  /\ UNCHANGED <<fmVars, lastCall, hist, lockVars, simVars, physVars, instVars, loopVars, fftVars>>

\* a grid of any sides with one cell away from zero
InitGrid ==
  /\ OthersIdle
  /\ InstancesIdle
  /\ LoopIdle
  /\ FFTIdle
  /\ \E w \in GridSides, h \in GridSides :
       \E i \in 0..(w - 1), j \in 0..(h - 1), val \in 1..MaxPotential :
         gridIn = [w |-> w, h |-> h, at |-> <<i, j>>, val |-> val]
  /\ gradOut = NoGradient
  /\ cpuOut = NoSpectrum
  /\ gpuOut = NoSpectrum

NextGrid ==
  \/ CalculateGradient
  \/ SolvePoissonFFT
  \/ \E compiled \in BOOLEAN, glOk \in BOOLEAN : applyGreensFunction(compiled, glOk)

SpecGrid == InitGrid /\ [][NextGrid]_vars

(***************************************************************************)
(* Claims about the FallbackManager, checked under Spec.                   *)
(***************************************************************************)
\* the two recorded averages compared on exact fractions, written out from the
\* recorded samples
BothSampled == /\ Len(performanceData[ProcessorTypeCPU]) > 0
               /\ Len(performanceData[ProcessorTypeGPU]) > 0
GPUAvgStrictlyLower ==
  SumSeq(performanceData[ProcessorTypeGPU]) * Len(performanceData[ProcessorTypeCPU])
    < SumSeq(performanceData[ProcessorTypeCPU]) * Len(performanceData[ProcessorTypeGPU])
AvgsEqual ==
  SumSeq(performanceData[ProcessorTypeGPU]) * Len(performanceData[ProcessorTypeCPU])
    = SumSeq(performanceData[ProcessorTypeCPU]) * Len(performanceData[ProcessorTypeGPU])

\* C1: right after SimulateGPUError found the mode ModeGPU, the mode is
\* ModeCPU, HasError() is true, GetLastError() is non-nil and GetProcessor()
\* returns the CPU processor type.
C1_FallbackOnGPUError ==
  (lastCall.op = "SimulateGPUError" /\ lastCall.modeBefore = ModeGPU)
    => /\ mode = ModeCPU
       /\ hasError = TRUE
       /\ lastError # ErrNil
       /\ ProcessorNow = ProcessorTypeCPU

C1_Witness ==
  /\ lastCall.op = "SimulateGPUError"
  /\ lastCall.modeBefore = ModeGPU
  /\ mode = ModeCPU
  /\ hasError

\* C3 as stated: GetProcessor() returns CPU in ModeCPU; in ModeGPU it returns
\* the device processor if the error flag is clear and CPU if it is set.
C3_AsStated ==
  lastCall.op = "GetProcessor"
    => /\ lastCall.modeBefore = ModeCPU => lastCall.ret = ProcessorTypeCPU
       /\ lastCall.modeBefore = ModeGPU =>
            lastCall.ret = (IF hasError THEN ProcessorTypeCPU ELSE ProcessorTypeGPU)

\* C3 amended: GetProcessor() returns CPU in ModeCPU; in ModeGPU it returns the
\* device processor if the device is available and the error flag is clear,
\* and the CPU processor if the device is unavailable or the error flag is set.
C3_ProcessorSelection ==
  lastCall.op = "GetProcessor"
    => /\ lastCall.modeBefore = ModeCPU => lastCall.ret = ProcessorTypeCPU
       /\ lastCall.modeBefore = ModeGPU =>
            lastCall.ret = (IF gpuAvailable /\ ~hasError
                              THEN ProcessorTypeGPU ELSE ProcessorTypeCPU)

C3_Witness ==
  /\ lastCall.op = "GetProcessor"
  /\ lastCall.modeBefore = ModeGPU
  /\ ~hasError
  /\ ~gpuAvailable
  /\ lastCall.ret = ProcessorTypeCPU

\* C4: in ModeAuto GetProcessor() returns the device processor only if the
\* device is available, the error flag is clear and the recorded GPU average is
\* strictly lower than the CPU average; with a type unsampled, or with equal
\* averages, it returns the CPU processor.
C4_AutoSelection ==
  (lastCall.op = "GetProcessor" /\ lastCall.modeBefore = ModeAuto)
    => /\ lastCall.ret = ProcessorTypeGPU =>
            (gpuAvailable /\ ~hasError /\ BothSampled /\ GPUAvgStrictlyLower)
       /\ (~BothSampled \/ AvgsEqual) => lastCall.ret = ProcessorTypeCPU

C4_Witness ==
  /\ lastCall.op = "GetProcessor"
  /\ lastCall.modeBefore = ModeAuto
  /\ BothSampled
  /\ GPUAvgStrictlyLower
  /\ ~hasError
  /\ lastCall.ret = ProcessorTypeCPU

\* C5: a device error signalled in ModeAuto leaves the mode ModeAuto, and in
\* ModeAuto GetProcessor() returns the CPU processor while the error flag is set.
C5_AutoKeepsMode ==
  /\ (lastCall.op = "SimulateGPUError" /\ lastCall.modeBefore = ModeAuto)
       => mode = ModeAuto
  /\ (mode = ModeAuto /\ hasError) => ProcessorNow = ProcessorTypeCPU
  /\ (lastCall.op = "GetProcessor" /\ lastCall.modeBefore = ModeAuto /\ hasError)
       => lastCall.ret = ProcessorTypeCPU

C5_Witness ==
  /\ lastCall.op = "SimulateGPUError"
  /\ lastCall.modeBefore = ModeAuto
  /\ mode = ModeAuto
  /\ hasError
  /\ BothSampled
  /\ GPUAvgStrictlyLower

\* C6 as stated: after SimulateGPUError on a manager on which SetMode was never
\* called, GetMode() reports ModeCPU.
C6_AsStated ==
  (lastCall.op = "SimulateGPUError" /\ ~modeSet) => mode = ModeCPU

\* C7: once an error has flipped ModeGPU to ModeCPU, every call other than
\* SetMode leaves the mode ModeCPU.
C7_OneDirectional ==
  [][(flipped /\ lastCall'.op # "SetMode") => (mode = ModeCPU /\ mode' = ModeCPU)]_vars

C7_Witness ==
  /\ flipped
  /\ mode = ModeCPU
  /\ lastCall.op = "ClearErrors"
  /\ ~hasError

\* C8: AttemptRecovery() returns an error exactly when no device is available,
\* and whenever it returns nil the error flag and the last error are clear.
C8_AttemptRecovery ==
  lastCall.op = "AttemptRecovery"
    => /\ (lastCall.ret # ErrNil) <=> ~gpuAvailable
       /\ lastCall.ret = ErrNil => (~hasError /\ lastError = ErrNil)

C8_Witness ==
  /\ lastCall.op = "AttemptRecovery"
  /\ lastCall.ret = ErrNotAvailable
  /\ ~gpuAvailable
  /\ hasError

(***************************************************************************)
(* Claim about concurrent callers, checked under SpecLock.                 *)
(***************************************************************************)
\* the goroutine is between the return of Lock/RLock and its deferred unlock
InMethodBody(g) == pc[g].at = "body"

\* C9: no goroutine is inside the body of a method that writes the manager's
\* state while another goroutine is inside the body of any method, and a
\* goroutine inside a reading method never sees an error update half done
\* (hasError and lastError always agree there).
C9_NoOverlap ==
  /\ \A g1, g2 \in Goroutines :
       (g1 # g2 /\ InMethodBody(g1) /\ InMethodBody(g2))
         => (~Writes(pc[g1].op) /\ ~Writes(pc[g2].op))
  /\ \A g \in Goroutines :
       (InMethodBody(g) /\ ~Writes(pc[g].op))
         => (hasError <=> lastError # ErrNil)

C9_Witness ==
  \E g1, g2 \in Goroutines :
    /\ g1 # g2
    /\ pc[g1].op = "SimulateGPUError" /\ pc[g1].at = "body" /\ pc[g1].step = 2
    /\ hasError /\ lastError = ErrNil
    /\ pc[g2].op = "GetProcessor" /\ pc[g2].at = "lock"

(***************************************************************************)
(* Claims about the device solve path, checked under SpecSim.              *)
(***************************************************************************)
\* the device part of the last GPU step failed: initialization was forced to
\* fail or failed, or the solve was forced to fail or returned an error
DeviceFailed ==
  /\ lastStep.op = "UpdateGPU"
  /\ (lastStep.initFailed \/ lastStep.solveErr # ErrNil)

\* solvePotentialGPU returned to the step, which went on to its next call
SolveReturned ==
  \E k \in 1..(Len(lastStep.steps) - 1) :
    lastStep.steps[k] = "solve" /\ lastStep.steps[k + 1] = "gradient"

\* C2: whenever device initialization or the device solve fails during a GPU
\* step, solvePotentialGPU still returns to the step, s.PotentialGrid is the
\* CPU solver's result and gpuErrorOccurred and fallbackToCPU are both set.
C2_FallbackWithinStep ==
  DeviceFailed
    => /\ SolveReturned
       /\ potentialBy = "cpu"
       /\ gpuErrorOccurred
       /\ fallbackToCPU

C2_Witness ==
  /\ DeviceFailed
  /\ ~forceGPUInitFailure /\ ~forceGPUCompFailure
  /\ lastStep.solveCalled
  /\ lastStep.solveErr = "failed to execute inverse FFT"
  /\ potentialBy = "cpu"
  /\ fallbackToCPU

\* the ExecuteFFT calls of the last step
LastFFTs == {lastStep.fwd, lastStep.inv}

\* C10 as stated: for power-of-two dimensions, whenever any part of the
\* Cooley-Tukey path of an ExecuteFFT call fails (kernel compilation included),
\* the call retries with the naive DFT kernel.
C10_AsStated ==
  \A x \in LastFFTs :
    (x.ran /\ x.pow2 /\ x.ctFailed) => x.retry # "none"

\* the plan SolvePoissonGPU requests for a transform of the simulation's grid
RequestedPlan(isForward) ==
  [Width |-> cfgDims[1], Height |-> cfgDims[2], IsForward |-> isForward]

\* C11: on one device context CreateGPUFFTPlan2D runs at most once for each
\* (width, height, direction) key, and every ExecuteFFT call of a solve runs
\* with a plan of the requested width, height and direction.
C11_PlanPerKey ==
  /\ ~planHist.again
  /\ lastStep.fwd.ran => lastStep.fwd.plan = RequestedPlan(TRUE)
  /\ lastStep.inv.ran => lastStep.inv.plan = RequestedPlan(FALSE)

\* a solve on a context that already held both plans ran both transforms
\* without creating a plan
C11_Witness ==
  /\ lastStep.op = "UpdateGPU"
  /\ ~lastStep.initAttempted
  /\ lastStep.solveCalled
  /\ lastStep.fwd.ran /\ lastStep.inv.ran
  /\ lastStep.plansCreated = {}
  /\ planHist.created = {PlanKey(cfgDims[1], cfgDims[2], TRUE),
                         PlanKey(cfgDims[1], cfgDims[2], FALSE)}

\* C12 as stated: an ExecuteFFT call that runs with a plan found in the cache
\* (not created by this solve) compiles no shader, and a solve on a context
\* that already ran one to the end of the Green's function step compiles none.
C12_AsStated ==
  /\ (lastStep.fwd.ran /\ PlanKey(cfgDims[1], cfgDims[2], TRUE) \notin lastStep.plansCreated)
       => lastStep.fwd.compiles = 0
  /\ (lastStep.inv.ran /\ PlanKey(cfgDims[1], cfgDims[2], FALSE) \notin lastStep.plansCreated)
       => lastStep.inv.compiles = 0
  /\ (lastStep.solveCalled /\ lastStep.plansCreated = {}) => ~lastStep.greensCompiled

\* the calls of a step that belong to the time integration: everything up to
\* and including its last kick
RECURSIVE UpToLastKick(_)
UpToLastKick(steps) ==
  IF steps = <<>> \/ steps[Len(steps)] = "kick" THEN steps
  ELSE UpToLastKick(SubSeq(steps, 1, Len(steps) - 1))

StepTaken == lastStep.op \in {"Update", "UpdateGPU"}

\* C13 as stated: every step, on the CPU path and on the GPU path, runs
\* deposit, solve, gradient, half kick, full drift, deposit, solve, gradient,
\* half kick.
C13_AsStated ==
  StepTaken =>
    UpToLastKick(lastStep.steps) =
      <<"deposit", "solve", "gradient", "kick", "drift",
        "deposit", "solve", "gradient", "kick">>

\* the calls of the last step in the order made, up to its last kick when
\* it returned
CallsMade == IF lastStep.done THEN UpToLastKick(lastStep.steps) ELSE lastStep.steps

\* the step made the calls of order in that order: all of them if it
\* returned, the first ones if it did not
FollowsOrder(order) ==
  /\ Len(CallsMade) <= Len(order)
  /\ CallsMade = SubSeq(order, 1, Len(CallsMade))
  /\ lastStep.done => CallsMade = order

\* C13 amended: a CPU step (Update) makes its calls in the order deposit,
\* solve, gradient, half kick, full drift, deposit, solve, gradient, half
\* kick; a GPU step (UpdateGPU) runs the deposit, solve, gradient pipeline
\* once, after the drift: half kick, full drift, deposit, solve, gradient,
\* half kick; a step that returns has made all of them.
C13_StepOrder ==
  /\ lastStep.op = "Update" =>
       FollowsOrder(<<"deposit", "solve", "gradient", "kick", "drift",
                      "deposit", "solve", "gradient", "kick">>)
  /\ lastStep.op = "UpdateGPU" =>
       FollowsOrder(<<"kick", "drift", "deposit", "solve", "gradient", "kick">>)

\* a GPU step whose one pipeline ran the device solver to the end
C13_Witness ==
  /\ lastStep.op = "UpdateGPU"
  /\ lastStep.solveCalled
  /\ lastStep.done
  /\ Len(lastStep.steps) = 6
  /\ potentialBy = "gpu"

(***************************************************************************)
(* Claims about package physics.                                           *)
(***************************************************************************)
RECURSIVE SumWrites(_)
SumWrites(writes) ==
  IF writes = <<>> THEN 0 ELSE Head(writes)[3] + SumWrites(Tail(writes))

\* the last particle's grid coordinate is outside [0, width) x [0, height)
LastCoordOutOfRange ==
  \/ depositLog.last.gxNeg \/ depositLog.last.i >= gridDims[1]
  \/ depositLog.last.gzNeg \/ depositLog.last.j >= gridDims[2]

\* the last particle's cell index is on the last row or column
LastOnLastRowOrColumn ==
  \/ depositLog.last.i = gridDims[1] - 1
  \/ depositLog.last.j = gridDims[2] - 1

\* C14 as stated: DepositMassToGrid never writes outside the grid, and a
\* particle whose grid coordinate is out of range, or whose cell index is on
\* the last row or column, adds nothing to any cell.
C14_AsStated ==
  depositLog.count > 0 =>
    /\ ~depositLog.outOfGrid
    /\ (LastCoordOutOfRange \/ LastOnLastRowOrColumn) => depositLog.last.writes = <<>>

RECURSIVE SumGrid(_, _)
\* the sum of the cells of a grid over a set of cells
SumGrid(grid, cells) ==
  IF cells = {} THEN 0
  ELSE LET c == CHOOSE x \in cells : TRUE
       IN  grid[c] + SumGrid(grid, cells \ {c})

\* the cells a write sequence touches
CellsWritten(writes) == {<<writes[k][1], writes[k][2]>> : k \in 1..Len(writes)}

\* C15: the cells of the grid add up to the total mass of the particles whose
\* cell index has 0 <= i < width-1 and 0 <= j < height-1, and such a particle's
\* whole mass goes to exactly the four cells (i,j), (i+1,j), (i,j+1), (i+1,j+1).
C15_MassConserved ==
  /\ SumGrid(massGrid, DOMAIN massGrid) = depositLog.eligible
  /\ (/\ depositLog.count > 0
      /\ depositLog.last.i \in 0..(gridDims[1] - 2)
      /\ depositLog.last.j \in 0..(gridDims[2] - 2))
       => /\ Len(depositLog.last.writes) = 4
          /\ CellsWritten(depositLog.last.writes) =
               {depositLog.last.i, depositLog.last.i + 1}
                 \X {depositLog.last.j, depositLog.last.j + 1}
          /\ SumWrites(depositLog.last.writes) = 4 * depositLog.last.Mass

\* two particles went through the loop, both inside, the second one between
\* two cells in x and in z
C15_Witness ==
  /\ depositLog.count = 2
  /\ depositLog.eligible >= 8
  /\ Len(depositLog.last.writes) = 4
  /\ \A k \in 1..4 : depositLog.last.writes[k][3] > 0

\* C16: once UpdatePositions has run on a particle, its X coordinate is in
\* [-width/2, +width/2] and its Z coordinate in [-height/2, +height/2], after
\* that drift and after every later kick and drift.
C16_PositionsInDomain ==
  lastMove.drifted
    => /\ particle.X2 >= -gridDims[1] /\ particle.X2 <= gridDims[1]
       /\ particle.Z2 >= -gridDims[2] /\ particle.Z2 <= gridDims[2]

\* a drift at full speed took the particle across the lower edge and put it
\* on the upper one (no position above the upper edge is that close to it)
C16_Witness ==
  /\ lastMove.op = "UpdatePositions"
  /\ particle.VX2 = -MaxSpeed
  /\ particle.X2 = gridDims[1]

(***************************************************************************)
(* Claims about construction, checked under SpecNew.                       *)
(***************************************************************************)
\* C17 as stated: NewSimulation on a configuration with a grid width or depth
\* <= 0 or a particle count < 0 fails and yields no simulation object.
C17_AsStated ==
  (/\ newCall.op = "NewSimulation"
   /\ \/ newCall.cfg.SimulationWidth <= 0
      \/ newCall.cfg.SimulationDepth <= 0
      \/ newCall.cfg.NumParticles < 0)
    => newCall.result.outcome # "simulation"

(***************************************************************************)
(* Claims about simulations sharing a process, checked under SpecPar.      *)
(***************************************************************************)
\* two simulations touched one location and at least one of them wrote it
SharedMutable ==
  \E a \in accesses, b \in accesses :
    a.sim # b.sim /\ a.loc = b.loc /\ a.write

\* the context simulation i holds is the one it gets when it runs alone in the
\* same process, and it met no device error but one of the device itself
SameAsAlone(i) ==
  /\ insts[i].gpuErrorOccurred => insts[i].fault
  /\ insts[i].gpu # 0 =>
       /\ contexts[insts[i].gpu].Headless = ~sharedCfg.window
       /\ contexts[insts[i].gpu].NeedsCleanup = ~sharedCfg.window
       /\ contexts[insts[i].gpu].Initialized

\* C18 as stated: simulations stepped concurrently never read or write the
\* same mutable state, each one ends up as it does when run alone, and none
\* panics.
C18_AsStated ==
  /\ ~SharedMutable
  /\ \A i \in Sims : SameAsAlone(i) /\ ~insts[i].panicked

(***************************************************************************)
(* Claims about the ownership of device contexts, checked under SpecOwn.   *)
(***************************************************************************)
Contexts == 1..Len(contexts)

\* C19 as stated: every device context a simulation holds or held was created
\* by that simulation's own GPU solve (it did not exist before), is referenced
\* by no other simulation,
\* and is torn down (plans and shaders released, Initialized cleared) once the
\* owning simulation's CleanupGPU was called.
C19_AsStated ==
  \A c \in Contexts :
    contexts[c].refs # {} =>
    /\ contexts[c].creator # 0
    /\ contexts[c].refs \subseteq {contexts[c].creator}
    /\ contexts[c].cleanupCalled =>
         ~contexts[c].Initialized /\ ~contexts[c].cached

(***************************************************************************)
(* Claims about the performance statistics, checked under Spec.            *)
(***************************************************************************)
\* the Stats of one processor type in a *PerformanceStats
StatsOf(stats, t) ==
  IF t = ProcessorTypeCPU THEN stats.CPUStats ELSE stats.GPUStats

\* C20: what GetPerformanceStats returns has, for each processor type, Count
\* equal to the number of RecordPerformance calls made for that type,
\* TotalTime equal to the sum of their times and AverageTime equal to
\* TotalTime / Count; so a recording for one type leaves the other type's
\* statistics as they were.
C20_StatsMatchRecordings ==
  lastCall.op = "GetPerformanceStats" =>
    \A t \in ProcessorTypes :
      /\ StatsOf(lastCall.ret, t).Count = recorded[t].count
      /\ StatsOf(lastCall.ret, t).TotalTime = recorded[t].total
      /\ recorded[t].count > 0 =>
           StatsOf(lastCall.ret, t).AvgNum * recorded[t].count
             = recorded[t].total * StatsOf(lastCall.ret, t).AvgDen

\* statistics were asked for after two CPU recordings of different times and
\* one GPU recording
C20_Witness ==
  /\ lastCall.op = "GetPerformanceStats"
  /\ recorded[ProcessorTypeCPU] = [count |-> 2, total |-> 3]
  /\ recorded[ProcessorTypeGPU].count = 1
  /\ lastCall.ret.CPUStats.TotalTime = 3

(***************************************************************************)
(* Claims about the RenderLoop, checked under SpecLoop.                    *)
(***************************************************************************)
\* C21 as stated: GetFrameCount returns the number of RecordFrameTime calls
\* made so far on the RenderLoop.
C21_AsStated == GetFrameCount(loop) = loopHist.recordings

\* C30 as stated: once RequestClose has been called and not undone by
\* ResetCloseRequest, Run begins no further frame, whether the request was
\* made before Run was called or during a frame, and IsRunning() is false when
\* Run returns.
C30_AsStated ==
  /\ ~loopHist.frameAfterRequest
  /\ ~loopHist.runningAtReturn

\* C30, amended: once RequestClose has been called during a call of Run and
\* not undone since by ResetCloseRequest or Start, that call begins no further
\* frame, and IsRunning() is false when Run returns.
C30_CloseRequestInRun ==
  /\ ~loopHist.frameAfterRunRequest
  /\ ~loopHist.runningAtReturn

\* Run has returned after a frame in which the close was requested
C30_Witness ==
  /\ runPc = "returned"
  /\ loopHist.requestedInRun
  /\ loop.shouldClose
  /\ loopHist.frames = 1
  /\ ~loop.running

(***************************************************************************)
(* Claims about the Cooley-Tukey pipeline, checked under SpecFFT.          *)
(***************************************************************************)
\* the kernels of the pipeline the device has started, in the order started
StagesStarted == SelectSeq(fftLog, LAMBDA e : e.kind = "stage")

\* the stage the claim puts at place i for a width of 2^a: row bit reversal,
\* row butterflies 0 .. a-1, column bit reversal, column butterflies 0 ..
ClaimedStage(i, a) ==
  IF i = 1 THEN [pass |-> "row", stage |-> -1]
  ELSE IF i <= a + 1 THEN [pass |-> "row", stage |-> i - 2]
  ELSE IF i = a + 2 THEN [pass |-> "col", stage |-> -1]
  ELSE [pass |-> "col", stage |-> i - a - 3]

\* C22: the device runs the stages in the order row bit reversal, row
\* butterfly stages by increasing number, column bit reversal, column
\* butterfly stages by increasing number, at most log2(height) of them; no two
\* kernels ever run at once, and the buffer a stage reads was written in full,
\* by the stage before it, when the stage starts.
C22_StagesOrderedAndSeparated ==
  /\ Cardinality(devRunning) <= 1
  /\ Len(StagesStarted) <= Log2(fftPlan.Width) + Log2(fftPlan.Height) + 2
  /\ \A i \in 1..Len(StagesStarted) :
       /\ StagesStarted[i].pass = ClaimedStage(i, Log2(fftPlan.Width)).pass
       /\ StagesStarted[i].stage = ClaimedStage(i, Log2(fftPlan.Width)).stage
       /\ StagesStarted[i].readHolds.complete
       /\ i > 1 => StagesStarted[i].readHolds.producer =
                     <<"stage", StagesStarted[i - 1].pass, StagesStarted[i - 1].stage>>

\* a 4 x 2 transform has run all five of its stages, the last being the one
\* column butterfly stage
C22_Witness ==
  /\ fftPlan.Width = 4
  /\ fftPlan.Height = 2
  /\ Len(StagesStarted) = 5
  /\ StagesStarted[5].pass = "col"
  /\ StagesStarted[5].stage = 0
  /\ StagesStarted[4].stage = -1

\* C23: every stage reads one buffer and writes a different one, and the
\* buffer a stage writes is the buffer the next stage reads.
C23_PingPong ==
  \A i \in 1..Len(StagesStarted) :
    /\ StagesStarted[i].read # StagesStarted[i].write
    /\ i > 1 => StagesStarted[i].read = StagesStarted[i - 1].write

\* the third stage of a transform reads the buffer the first stage read, the
\* second having read the other one
C23_Witness ==
  /\ Len(StagesStarted) >= 3
  /\ StagesStarted[3].read = StagesStarted[1].read
  /\ StagesStarted[2].read = StagesStarted[1].write
  /\ StagesStarted[2].write = StagesStarted[1].read

\* C25 as stated: the caller's input buffer holds the caller's data throughout
\* ExecuteFFT, and the naive retry after a Cooley-Tukey failure reads that data.
C25_AsStated ==
  /\ fftBufs["input"].producer = <<"caller", 0>>
  /\ \A i \in 1..Len(fftLog) :
       fftLog[i].kind = "naive" => fftLog[i].readHolds.producer = <<"caller", 0>>

(***************************************************************************)
(* The 1/N scaling of the transforms of one device solve.                  *)
(***************************************************************************)
\* the scalings by 1/TOTAL_SIZE a kernel applies to its output: the naive DFT
\* kernel multiplies the sum by normFactor when direction < 0.0, that is for
\* an inverse plan (main.go:550-553, 597-600); the Cooley-Tukey kernel has no
\* such factor
normFactor(exec) ==
  IF exec.kernel = "naive" /\ ~exec.plan.IsForward THEN 1 ELSE 0

\* the scalings by 1/totalSize SolvePoissonGPU applies on the host to the
\* downloaded result of its inverse transform (main.go:910-915), reached when
\* no step of the solve failed
normalizationFactor(step) ==
  IF step.solveCalled /\ step.solveErr = ErrNil THEN 1 ELSE 0

\* the times a completed device solve scales the result of its inverse
\* transform, on the device and on the host
InverseScalings(step) == normFactor(step.inv) + normalizationFactor(step)

\* a device solve that ran to its end
SolveCompleted ==
  /\ lastStep.op = "UpdateGPU"
  /\ lastStep.solveCalled
  /\ lastStep.solveErr = ErrNil

\* C24: every inverse transform of a completed device solve, whichever kernel
\* produced it (Cooley-Tukey, naive DFT for a size that is not a power of
\* two, naive retry), has the 1/N scaling applied exactly once, and the
\* forward transform has none.
C24_AsStated ==
  SolveCompleted =>
    /\ InverseScalings(lastStep) = 1
    /\ normFactor(lastStep.fwd) = 0

(***************************************************************************)
(* Device steps after a recorded device failure.                           *)
(***************************************************************************)
\* the step is an UpdateGPU call on a simulation that has a device failure
\* of an earlier step on record (nothing in main.Simulation clears the flag)
StepAfterFailure ==
  /\ gpuErrorOccurred
  /\ fallbackToCPU
  /\ lastStep'.op = "UpdateGPU"

\* C26: once a step has recorded a device initialisation or execution
\* failure, a later device-mode step neither initialises the device nor runs
\* the device solver again: it goes straight to the CPU solver.
C26_AsStated ==
  [][StepAfterFailure =>
       /\ ~lastStep'.initAttempted
       /\ ~lastStep'.solveCalled
       /\ potentialBy' = "cpu"]_vars

(***************************************************************************)
(* The device buffers of one SolvePoissonGPU call.                         *)
(***************************************************************************)
\* the errors of SolvePoissonGPU that leave before inputBuffer exists, before
\* fftOutputBuffer exists and before finalBuffer exists (main.go:823-897)
BeforeInputBuffer == {"GPU context not initialized", "failed to create input buffer"}

BeforeOutputBuffer ==
  BeforeInputBuffer \cup {"failed to upload density data",
                          "failed to create FFT output buffer"}

BeforeFinalBuffer ==
  BeforeOutputBuffer \cup {"failed to execute forward FFT",
                           "failed to apply Green's function",
                           "failed to create final buffer"}

\* the ping-pong buffers createTempComplexBuffer made in the ExecuteFFT calls
\* of the step (main.go:421-425), whether or not the Cooley-Tukey attempt
\* then ran to its end
TempBuffers(step) ==
  {b \in {"fwdTemp", "invTemp"} :
     (IF b = "fwdTemp" THEN step.fwd ELSE step.inv).temp}

\* the buffers CreateComplexGPUBuffer returned during the call
BuffersAllocated(step) ==
  IF ~step.solveCalled THEN {}
  ELSE {b \in {"input", "fftOutput", "final"} :
          \/ b = "input" /\ step.solveErr \notin BeforeInputBuffer
          \/ b = "fftOutput" /\ step.solveErr \notin BeforeOutputBuffer
          \/ b = "final" /\ step.solveErr \notin BeforeFinalBuffer}
       \cup TempBuffers(step)

\* the buffers handed to FreeComplexGPUBuffer before the call returned: the
\* deferred call of executeCooleyTukeyFFT on its temporary buffer
\* (main.go:426-428), which runs on every return after the buffer was made,
\* is the only one in the program
BuffersFreed(step) == TempBuffers(step)

\* C27: every device buffer allocated during a SolvePoissonGPU call (input,
\* transform output, final, ping-pong) has been freed when the call returns,
\* with or without an error.
C27_AsStated ==
  (lastStep.op = "UpdateGPU" /\ lastStep.solveCalled)
    => BuffersAllocated(lastStep) \subseteq BuffersFreed(lastStep)

(***************************************************************************)
(* Claims about the grid functions, checked under SpecGrid.                *)
(***************************************************************************)
\* a slice of rows has exactly n rows of m entries each
HasShape(rows, n, m) ==
  /\ DOMAIN rows = 0..(n - 1)
  /\ \A i \in DOMAIN rows : DOMAIN rows[i] = 0..(m - 1)

\* C28: for every positive width and height, equal or not, CalculateGradient
\* indexes nothing out of range and returns AccelFieldX and AccelFieldZ with
\* exactly width rows of height entries each.
C28_AsStated ==
  gradOut.done =>
    /\ ~gradOut.panicked
    /\ HasShape(gradOut.AccelFieldX, gridIn.w, gridIn.h)
    /\ HasShape(gradOut.AccelFieldZ, gridIn.w, gridIn.h)

\* C29: on the CPU path and on the device path the coefficient at (0,0) is
\* exactly zero when the frequency-space pass has been made, that is before
\* the inverse transform.
C29_DCZeroed ==
  /\ cpuOut.done => cpuOut.data[0][0] = ZeroCoefficient
  /\ (gpuOut.done /\ gpuOut.err = ErrNil) => gpuOut.data[0] = ZeroCoefficient

\* both passes made on a grid of unequal sides whose (0,0) coefficient was
\* not zero, with other coefficients scaled
C29_Witness ==
  /\ gridIn.at = <<0, 0>>
  /\ gridIn.w > gridIn.h /\ gridIn.h > 1
  /\ cpuOut.done
  /\ gpuOut.done /\ gpuOut.err = ErrNil
  /\ cpuOut.data[0][1].kind = "scaled"
  /\ gpuOut.data[1].kind = "scaled"

====
